---- MODULE Spec2Model ----
(***************************************************************************)
(* Model of the ELV sequence-preserving extraction pipeline                *)
(* (sequence_preserving_elv_extractor.py, elv_sequence_report_generator.py)*)
(* and of the sequence renderer (sequence_preserving_music_generator.py).  *)
(*                                                                         *)
(* Bytes and characters are integers (their code points); byte strings and *)
(* Python str values are sequences of them.  Offsets are 0-based as in the *)
(* Python code; TLA+ sequences are 1-based, so text[p + 1] is the          *)
(* character at offset p.                                                  *)
(***************************************************************************)
EXTENDS Integers, Sequences, FiniteSets, TLC

VARIABLES
    data,                   \* argument of _extract_audio_sequence_from_data
    audio_sequence,         \* its audio_sequence list of (filename, offset)
    classify_filename,      \* argument of _classify_audio_file
    file_type,              \* its return value
    available_audio_files,  \* extractor inventory: set of upper-case names
    check_filename,         \* argument of _check_audio_file_exists
    check_result,           \* its return value
    audio_file_info,        \* report generator inventory: name -> metadata
    report_check_result,    \* return value of the report generator's check
    elv_file,               \* the level file at filepath: None when missing
    file_info,              \* ELVFileInfo built by parse_elv_file
    report,                 \* ELVSequenceReport built by generate_elv_report
    returned,               \* the operations that have returned
    extraction_data,        \* renderer: the 'files' list of the extraction JSON
    level_filename,         \* argument of generate_level_music
    duration_seconds,       \* its duration in seconds, a float
    rloops_dir,             \* renderer: the WAV files of its rloops directory
    pc,                     \* position of generate_level_music
    audio_clips,            \* its list of loaded clips
    target_samples,         \* length of the target buffer
    music_buffer,           \* the target buffer
    current_pos,            \* the write cursor
    clip_index,             \* position of the for loop in audio_clips
    music_result,           \* return value of generate_level_music
    audio_16bit,            \* the int16 samples written by save_music
    elvrl_dir,              \* the ELVRL directory: None when it does not exist
    extracted_files,        \* extractor: self.extracted_files
    extract_all_result,     \* return value of extract_all_files
    reports,                \* report generator: self.reports
    generate_all_result,    \* return value of generate_all_reports
    sequence_data           \* the JSON written by save_sequence_data

vars == <<data, audio_sequence, classify_filename, file_type,
          available_audio_files, check_filename, check_result,
          audio_file_info, report_check_result,
          elv_file, file_info, report, returned,
          extraction_data, level_filename, duration_seconds, rloops_dir, pc,
          audio_clips, target_samples, music_buffer, current_pos, clip_index,
          music_result, audio_16bit,
          elvrl_dir, extracted_files, extract_all_result, reports,
          generate_all_result, sequence_data>>
batchVars == <<elvrl_dir, extracted_files, extract_all_result, reports,
               generate_all_result, sequence_data>>
musicVars == <<extraction_data, level_filename, duration_seconds, rloops_dir, pc,
               audio_clips, target_samples, music_buffer, current_pos,
               clip_index, music_result, audio_16bit>>

(***************************************************************************)
(* Bounds of the model.                                                    *)
(***************************************************************************)
MaxFrags == 2       \* fragments concatenated to form a blob
MaxFileFrags == 2   \* fragments concatenated to form a level file payload
MaxPrefix == 2      \* characters put before a stem to form a filename
MaxClips == 2       \* entries of the level given to the renderer
MaxDurationNum == 10 \* durations are 0..MaxDurationNum / 65536 of a second
MaxBuffer == 3      \* samples of a buffer given to the normalization
MaxTitleFrags == 3  \* fragments concatenated after the header of a titled file
MaxFrames == 4      \* frames of a WAV file given to the resampling
MaxSaveFrames == 2  \* frames of a WAV file of extreme sample values

\* Optional[...] values: None, or a one-element sequence holding the value.
None == <<>>
Some(x) == <<x>>

(***************************************************************************)
(* Characters.                                                             *)
(***************************************************************************)
IsDigit(c) == c >= 48 /\ c <= 57
IsUpperAZ(c) == c >= 65 /\ c <= 90
IsLowerAZ(c) == c >= 97 /\ c <= 122

\* str.upper() on one ASCII character
UpperChar(c) == IF IsLowerAZ(c) THEN c - 32 ELSE c
\* str.lower() on one ASCII character (re.IGNORECASE folds to lower case)
LowerChar(c) == IF IsUpperAZ(c) THEN c + 32 ELSE c

\* str.upper()
Upper(s) == [i \in 1..Len(s) |-> UpperChar(s[i])]

\* s[a:b] for 0 <= a (Python slice, clipped at the end of s)
Slice(s, a, b) ==
    LET e == IF b > Len(s) THEN Len(s) ELSE b
    IN  IF a >= e THEN <<>> ELSE SubSeq(s, a + 1, e)

\* bytes.decode('ascii', errors='ignore'): bytes >= 0x80 are dropped
IsAscii(byte) == byte < 128
DecodeAsciiIgnore(bytes) == SelectSeq(bytes, IsAscii)

(***************************************************************************)
(* Literals.                                                               *)
(***************************************************************************)
RHYTH_WAV   == <<82, 72, 89, 84, 72, 46, 87, 65, 86>>           \* "RHYTH.WAV"
RHYT_WAV    == <<82, 72, 89, 84, 46, 87, 65, 86>>               \* "RHYT.WAV"
NOSOUND_WAV == <<78, 79, 83, 79, 85, 78, 68, 46, 87, 65, 86>>   \* "NOSOUND.WAV"
DOT_WAV     == <<46, 87, 65, 86>>                               \* ".WAV"
ELVD        == <<69, 76, 86, 68>>                               \* b'ELVD'
Lower(s) == [i \in 1..Len(s) |-> LowerChar(s[i])]

(***************************************************************************)
(* Regular expressions of audio_patterns.  A pattern is a sequence of      *)
(* elements: [k |-> "lit", c |-> ch], [k |-> "digits"] for \d+ and         *)
(* [k |-> "az"] / [k |-> "AZ"] for the classes [a-z] / [A-Z].              *)
(***************************************************************************)
Lit(s) == [i \in 1..Len(s) |-> [k |-> "lit", c |-> s[i]]]
Digits == <<[k |-> "digits", c |-> 0]>>
ClassLower == <<[k |-> "az", c |-> 0]>>
ClassUpper == <<[k |-> "AZ", c |-> 0]>>
Dollar == <<[k |-> "eol", c |-> 0]>>

audio_patterns ==
    << Digits \o Lit(Lower(RHYTH_WAV)),                 \* (\d+rhyth\.wav)
       ClassLower \o Lit(Lower(RHYTH_WAV)),             \* ([a-z]rhyth\.wav)
       Lit(<<33>>) \o Digits \o Lit(Lower(RHYT_WAV)),   \* (!\d+rhyt\.wav)
       Lit(<<120>>) \o Digits \o Lit(Lower(RHYT_WAV)),  \* (x\d+rhyt\.wav)
       Lit(Lower(NOSOUND_WAV)),                         \* (nosound\.wav)
       Digits \o Lit(RHYTH_WAV),                        \* (\d+RHYTH\.WAV)
       ClassUpper \o Lit(RHYTH_WAV),                    \* ([A-Z]RHYTH\.WAV)
       Lit(<<33>>) \o Digits \o Lit(RHYT_WAV),          \* (!\d+RHYT\.WAV)
       Lit(<<88>>) \o Digits \o Lit(RHYT_WAV),          \* (X\d+RHYT\.WAV)
       Lit(NOSOUND_WAV) >>                              \* (NOSOUND\.WAV)

\* One pattern element against one character; ic is re.IGNORECASE.
ElemMatchesChar(e, ch, ic) ==
    CASE e.k = "lit"    -> IF ic THEN LowerChar(e.c) = LowerChar(ch) ELSE e.c = ch
      [] e.k = "digits" -> IsDigit(ch)
      [] e.k = "az"     -> IF ic THEN IsLowerAZ(LowerChar(ch)) ELSE IsLowerAZ(ch)
      [] e.k = "AZ"     -> IF ic THEN IsUpperAZ(UpperChar(ch)) ELSE IsUpperAZ(ch)
      [] OTHER          -> FALSE

\* The least member of a set of integers, or none when the set is empty.
LeastOr(S, none) == IF S = {} THEN none ELSE CHOOSE p \in S : \A q \in S : p <= q

\* Length of the run of digits of text starting at offset p: up to the first
\* offset that is the end of the text or holds no digit.
DigitRun(text, p) ==
    LeastOr({q \in p..Len(text) : q = Len(text) \/ ~IsDigit(text[q + 1])}, p) - p

\* Number of elements of pat from the k-th on that each take one character:
\* the run up to the next \d+ or $.
CharRun(pat, k) ==
    LeastOr({j \in k..Len(pat) : pat[j].k \in {"digits", "eol"}}, Len(pat) + 1) - k
\* The n one-character elements of pat from the k-th on match the n
\* characters of text at offset p.
RunMatches(pat, k, n, text, p, ic) ==
    /\ p + n <= Len(text)
    /\ \A j \in 0..(n - 1) : ElemMatchesChar(pat[k + j], text[p + 1 + j], ic)
\* $ matches at the end of the text and before a newline that ends it.
AtEnd(text, p) == p = Len(text) \/ (p = Len(text) - 1 /\ text[p + 1] = 10)

\* End offset of the match of elements k.. of pat at offset p, or -1.
\* A run of one-character elements matches when each matches its character.
\* \d+ is greedy and backtracks: the longest run whose continuation matches.
RECURSIVE MatchFrom(_, _, _, _, _)
RECURSIVE GreedyDigits(_, _, _, _, _, _)
MatchFrom(pat, k, text, p, ic) ==
    CASE k > Len(pat) -> p
      [] k <= Len(pat) /\ pat[k].k = "digits" ->
            GreedyDigits(pat, k, text, p, DigitRun(text, p), ic)
      [] k <= Len(pat) /\ pat[k].k = "eol" /\ AtEnd(text, p) ->
            MatchFrom(pat, k + 1, text, p, ic)
      [] k <= Len(pat) /\ pat[k].k \notin {"digits", "eol"}
                      /\ RunMatches(pat, k, CharRun(pat, k), text, p, ic) ->
            MatchFrom(pat, k + CharRun(pat, k), text, p + CharRun(pat, k), ic)
      [] OTHER -> -1
GreedyDigits(pat, k, text, p, n, ic) ==
    IF n < 1 THEN -1
    ELSE LET e == MatchFrom(pat, k + 1, text, p + n, ic)
         IN  IF e # -1 THEN e ELSE GreedyDigits(pat, k, text, p, n - 1, ic)

\* Offset of the leftmost match of pat in text at pos or after it, or -1.
NextMatch(pat, text, pos) ==
    LeastOr({p \in pos..(Len(text) - 1) : MatchFrom(pat, 1, text, p, TRUE) # -1}, -1)

\* re.finditer(pattern, text, re.IGNORECASE) from offset pos on: the
\* non-overlapping matches, leftmost first, each as
\* (match.group(1).upper(), match.start()).
RECURSIVE FindIter(_, _, _)
\* The match from offset start to offset e, and those that follow it.
MatchAndRest(pat, text, start, e) ==
    <<[filename |-> Upper(Slice(text, start, e)), position |-> start]>>
    \o FindIter(pat, text, e)
\* The matches from the leftmost one on, which begins at start (-1: none).
MatchesFrom(pat, text, start) ==
    IF start = -1 THEN <<>>
    ELSE MatchAndRest(pat, text, start, MatchFrom(pat, 1, text, start, TRUE))
FindIter(pat, text, pos) == MatchesFrom(pat, text, NextMatch(pat, text, pos))

\* list.extend over a list of lists: the members of the lists of seqs, one
\* list after the other.
Flatten(seqs) ==
    LET at == UNION {{<<i, j>> : j \in 1..Len(seqs[i])} : i \in 1..Len(seqs)}
        Before(a, b) == a[1] < b[1] \/ (a[1] = b[1] /\ a[2] < b[2])
        Nth(k) == CHOOSE a \in at : Cardinality({b \in at : Before(b, a)}) = k - 1
    IN  [k \in 1..Cardinality(at) |-> seqs[Nth(k)[1]][Nth(k)[2]]]

\* Lines 100-105: the matches of every pattern from the i-th on, in pattern
\* order.
AllMatches(text, i) ==
    Flatten([j \in 1..(Len(audio_patterns) - i + 1) |->
                FindIter(audio_patterns[i + j - 1], text, 0)])

\* list.sort(key=lambda x: x[1]): stable sort by position.
RECURSIVE InsertByPosition(_, _)
InsertByPosition(sorted, m) ==
    IF sorted = <<>> THEN <<m>>
    ELSE IF sorted[Len(sorted)].position <= m.position
         THEN Append(sorted, m)
         ELSE Append(InsertByPosition(SubSeq(sorted, 1, Len(sorted) - 1), m),
                     sorted[Len(sorted)])
\* Mutant: the matches are left in pattern order.
SortByPosition_unsorted(ms) == ms
RECURSIVE SortByPosition(_)
SortByPosition(ms) ==
    IF ms = <<>> THEN <<>>
    ELSE InsertByPosition(SortByPosition(SubSeq(ms, 1, Len(ms) - 1)), ms[Len(ms)])

\* Lines 110-115: keep the first occurrence of each filename longer than 4.
\* Mutant: the last occurrence of a filename is kept instead of the first.
RECURSIVE RemoveDuplicates_keep_last(_, _)
RemoveDuplicates_keep_last(ms, seen) ==
    IF ms = <<>> THEN <<>>
    ELSE LET m == Head(ms)
             later == {Tail(ms)[i].filename : i \in 1..(Len(ms) - 1)}
         IN  IF m.filename \notin later /\ Len(m.filename) > 4
             THEN <<m>> \o RemoveDuplicates_keep_last(Tail(ms), seen)
             ELSE RemoveDuplicates_keep_last(Tail(ms), seen)
RECURSIVE RemoveDuplicates(_, _)
RemoveDuplicates(ms, seen) ==
    IF ms = <<>> THEN <<>>
    ELSE LET m == Head(ms)
         IN  IF m.filename \notin seen /\ Len(m.filename) > 4
             THEN <<m>> \o RemoveDuplicates(Tail(ms), seen \cup {m.filename})
             ELSE RemoveDuplicates(Tail(ms), seen)

\* Mutant: every match is kept under its 4-character extension, and no
\* length is tested.
_extract_audio_sequence_from_data_extension_only(bytes) ==
    LET text_data == DecodeAsciiIgnore(bytes)
        all_matches == SortByPosition(AllMatches(text_data, 1))
    IN  [i \in 1..Len(all_matches) |->
            [filename |-> Slice(all_matches[i].filename,
                                Len(all_matches[i].filename) - 4,
                                Len(all_matches[i].filename)),
             position |-> all_matches[i].position]]
\* SequencePreservingELVExtractor._extract_audio_sequence_from_data
_extract_audio_sequence_from_data(bytes) ==
    LET text_data == DecodeAsciiIgnore(bytes)
        all_matches == SortByPosition(AllMatches(text_data, 1))
    IN  RemoveDuplicates(all_matches, {})

(***************************************************************************)
(* Classification and resolution.                                          *)
(***************************************************************************)
\* str.startswith(ch) for a one-character prefix
StartsWithChar(s, ch) == Len(s) >= 1 /\ s[1] = ch

\* re.match(pattern, s) is not None, for a pattern that ends in $
ReMatch(pat, s) == MatchFrom(pat, 1, s, 0, FALSE) # -1

\* Mutant: the letter pattern is tried before the 'X' prefix.
_classify_audio_file_letter_first(filename) ==
    LET filename_upper == Upper(filename)
    IN  IF filename_upper = NOSOUND_WAV THEN "silence"
        ELSE IF StartsWithChar(filename_upper, 33) THEN "system"
        ELSE IF ReMatch(ClassUpper \o Lit(RHYTH_WAV) \o Dollar, filename_upper)
             THEN "letter_rhythm"
        ELSE IF StartsWithChar(filename_upper, 88) THEN "special"
        ELSE IF ReMatch(Digits \o Lit(RHYTH_WAV) \o Dollar, filename_upper)
             THEN "numbered_rhythm"
        ELSE "unknown"

\* SequencePreservingELVExtractor._classify_audio_file
_classify_audio_file(filename) ==
    LET filename_upper == Upper(filename)
    IN  IF filename_upper = NOSOUND_WAV THEN "silence"
        ELSE IF StartsWithChar(filename_upper, 33) THEN "system"
        ELSE IF StartsWithChar(filename_upper, 88) THEN "special"
        ELSE IF ReMatch(ClassUpper \o Lit(RHYTH_WAV) \o Dollar, filename_upper)
             THEN "letter_rhythm"
        ELSE IF ReMatch(Digits \o Lit(RHYTH_WAV) \o Dollar, filename_upper)
             THEN "numbered_rhythm"
        ELSE "unknown"

\* str.endswith(suffix)
EndsWith(s, suffix) ==
    Len(s) >= Len(suffix)
    /\ SubSeq(s, Len(s) - Len(suffix) + 1, Len(s)) = suffix

\* SequencePreservingELVExtractor._cache_available_audio_files, given
\* os.listdir(rloops_dir)
_cache_available_audio_files(listing) ==
    {Upper(filename) : filename \in {n \in listing : EndsWith(Upper(n), DOT_WAV)}}

\* Mutant: every leading digit is stripped, not exactly one.
_check_audio_file_exists_strip_all(filename, inventory) ==
    LET filename_upper == Upper(filename)
        alt_filename == Upper(Slice(filename, DigitRun(filename, 0), Len(filename)))
    IN  IF filename_upper \in inventory
        THEN [exists |-> TRUE, alternative |-> Some(filename_upper)]
        ELSE IF Len(filename) > 4 /\ IsDigit(filename[1])
                /\ alt_filename \in inventory
        THEN [exists |-> TRUE, alternative |-> Some(alt_filename)]
        ELSE [exists |-> FALSE, alternative |-> None]

\* SequencePreservingELVExtractor._check_audio_file_exists
_check_audio_file_exists(filename, inventory) ==
    LET filename_upper == Upper(filename)
        alt_filename == Upper(Slice(filename, 1, Len(filename)))
    IN  IF filename_upper \in inventory
        THEN [exists |-> TRUE, alternative |-> Some(filename_upper)]
        ELSE IF Len(filename) > 4 /\ IsDigit(filename[1])
                /\ alt_filename \in inventory
        THEN [exists |-> TRUE, alternative |-> Some(alt_filename)]
        ELSE [exists |-> FALSE, alternative |-> None]

(***************************************************************************)
(* Level parser.                                                           *)
(***************************************************************************)
\* str.isprintable() on one ASCII character
IsPrintable(c) == c >= 32 /\ c <= 126

\* str.split('\x00') of cur followed by text: the pieces between the NULs,
\* one more than there are NULs.
SplitNul(text, cur) ==
    LET whole == cur \o text
        nuls == {i \in 1..Len(whole) : whole[i] = 0}
        \* offset of the k-th NUL; 0 before the first, Len + 1 after the last
        NulAt(k) ==
            IF k = 0 THEN 0
            ELSE IF k > Cardinality(nuls) THEN Len(whole) + 1
            ELSE CHOOSE i \in nuls : Cardinality({j \in nuls : j <= i}) = k
    IN  [k \in 1..(Cardinality(nuls) + 1) |->
            SubSeq(whole, NulAt(k - 1) + 1, NulAt(k) - 1)]

\* ''.join(c for c in line if c.isprintable())
KeepPrintable(line) == SelectSeq(line, IsPrintable)

\* str.strip() of a string of printable ASCII: only spaces are whitespace
Strip(s) ==
    LET kept == {i \in 1..Len(s) : s[i] # 32}
    IN  IF kept = {} THEN <<>>
        ELSE SubSeq(s, CHOOSE i \in kept : \A j \in kept : i <= j,
                       CHOOSE i \in kept : \A j \in kept : j <= i)

DOT_LBM == <<46, 108, 98, 109>>     \* ".lbm"
TitleMinLen == 10
TitleMaxLen == 50

\* Lines 179-185: the first qualifying line, cut to 50 characters, or None.
RECURSIVE FirstTitle(_)
FirstTitle(lines) ==
    IF lines = <<>> THEN None
    ELSE LET clean_line == Strip(KeepPrintable(Head(lines)))
         IN  IF Len(clean_line) > TitleMinLen /\ ~EndsWith(clean_line, DOT_LBM)
             THEN Some(Slice(clean_line, 0, TitleMaxLen))
             ELSE FirstTitle(Tail(lines))

ExtractLevelTitle(bytes) ==
    FirstTitle(SplitNul(DecodeAsciiIgnore(Slice(bytes, 8, Len(bytes))), <<>>))

\* Mutant: the two bytes read in big-endian order.
UnpackLE16_big_endian(bytes) == 256 * bytes[1] + bytes[2]
\* struct.unpack('<H', version_data[:2])[0]
UnpackLE16(bytes) == bytes[1] + 256 * bytes[2]

\* Lines 144-155: the ELVFileInfo parse_elv_file starts from.
DefaultFileInfo ==
    [file_size |-> 0, elvd_version |-> 0, level_title |-> None,
     audio_files |-> <<>>, audio_count |-> 0, parse_success |-> FALSE,
     error_message |-> None]

\* Mutant: positions are counted from 1.
AudioInfo_one_based(sequence_pos, entry, inventory) ==
    LET checked == _check_audio_file_exists(entry.filename, inventory)
    IN  [filename |-> entry.filename,
         file_type |-> _classify_audio_file(entry.filename),
         exists_in_rloops |-> checked.exists,
         sequence_position |-> sequence_pos + 1,
         binary_offset |-> entry.position,
         alternative_found |->
             IF checked.alternative # Some(Upper(entry.filename))
             THEN checked.alternative ELSE None]

\* Mutant: the resolved name is recorded as the alias even when it is the
\* requested name.
AudioInfo_alias_always(sequence_pos, entry, inventory) ==
    LET checked == _check_audio_file_exists(entry.filename, inventory)
    IN  [filename |-> entry.filename,
         file_type |-> _classify_audio_file(entry.filename),
         exists_in_rloops |-> checked.exists,
         sequence_position |-> sequence_pos,
         binary_offset |-> entry.position,
         alternative_found |-> checked.alternative]

\* Lines 191-203: one ELVAudioInfo per entry of the sequence.
AudioInfo(sequence_pos, entry, inventory) ==
    LET checked == _check_audio_file_exists(entry.filename, inventory)
    IN  [filename |-> entry.filename,
         file_type |-> _classify_audio_file(entry.filename),
         exists_in_rloops |-> checked.exists,
         sequence_position |-> sequence_pos,
         binary_offset |-> entry.position,
         alternative_found |->
             IF checked.alternative # Some(Upper(entry.filename))
             THEN checked.alternative ELSE None]

\* Mutant: only the magic tag is checked, not the length.
InvalidHeader_magic_only(bytes) == Slice(bytes, 0, 4) # ELVD

\* Line 169: the ELVD header check.
InvalidHeader(bytes) == Len(bytes) < 8 \/ Slice(bytes, 0, 4) # ELVD

\* Mutant: a reference that is not found makes the whole parse fail.
parse_elv_file_fail_when_unresolved(file, inventory) ==
    IF file = None
    THEN [DefaultFileInfo EXCEPT !.error_message = Some("File not found")]
    ELSE LET bytes == file[1]
         IN  IF InvalidHeader(bytes)
             THEN [DefaultFileInfo EXCEPT
                      !.file_size = Len(bytes),
                      !.error_message = Some("Invalid ELVD header")]
             ELSE LET seq == _extract_audio_sequence_from_data(bytes)
                      audio_files ==
                          [i \in 1..Len(seq) |-> AudioInfo(i - 1, seq[i], inventory)]
                      resolved == \A i \in 1..Len(seq) : audio_files[i].exists_in_rloops
                  IN  [file_size |-> Len(bytes),
                       elvd_version |-> UnpackLE16(Slice(bytes, 4, 6)),
                       level_title |-> ExtractLevelTitle(bytes),
                       audio_files |-> audio_files,
                       audio_count |-> Len(audio_files),
                       parse_success |-> resolved,
                       error_message |->
                           IF resolved THEN None ELSE Some("Unresolved reference")]
\* SequencePreservingELVExtractor.parse_elv_file
parse_elv_file(file, inventory) ==
    IF file = None
    THEN [DefaultFileInfo EXCEPT !.error_message = Some("File not found")]
    ELSE LET bytes == file[1]
         IN  IF InvalidHeader(bytes)
             THEN [DefaultFileInfo EXCEPT
                      !.file_size = Len(bytes),
                      !.error_message = Some("Invalid ELVD header")]
             ELSE LET seq == _extract_audio_sequence_from_data(bytes)
                      audio_files ==
                          [i \in 1..Len(seq) |-> AudioInfo(i - 1, seq[i], inventory)]
                  IN  [file_size |-> Len(bytes),
                       elvd_version |-> UnpackLE16(Slice(bytes, 4, 6)),
                       level_title |-> ExtractLevelTitle(bytes),
                       audio_files |-> audio_files,
                       audio_count |-> Len(audio_files),
                       parse_success |-> TRUE,
                       error_message |-> None]

(***************************************************************************)
(* Report generator (elv_sequence_report_generator.py).                    *)
(***************************************************************************)
Pow2(k) == 2 ^ k
\* Number of bits of n >= 0.
BitLen(n) == IF n = 0 THEN 0 ELSE CHOOSE k \in 1..31 : n \div Pow2(k - 1) = 1

\* A float64 that is not negative is held exactly, as the record [h, l, e]
\* that stands for (h * 2^26 + l) * 2^e: a mantissa of 53 bits in two limbs,
\* 2^26 <= h < 2^27 and 0 <= l < 2^26, or h = l = e = 0 for 0.0.  Exponents
\* stay far from the limits of the format.
Limb == 67108864    \* 2^26
Zero64 == [h |-> 0, l |-> 0, e |-> 0]
\* The float64 nearest to (h * 2^26 + l + f) * 2^e, a tie going to the even
\* mantissa, for limbs 2^26 <= h < 2^31 and l < 2^26 and a fraction
\* 0 <= f < 1 that is not 0 exactly when sticky (then h >= 2^27).
RoundFloat64(h, l, sticky, e) ==
    LET d == BitLen(h) - 27
        keep_h == h \div Pow2(d)
        keep_l == (h % Pow2(d)) * Pow2(26 - d) + l \div Pow2(d)
        rest == l % Pow2(d)
        up == /\ d > 0
              /\ \/ rest > Pow2(d - 1)
                 \/ rest = Pow2(d - 1) /\ (sticky \/ keep_l % 2 = 1)
    IN  CASE ~up -> [h |-> keep_h, l |-> keep_l, e |-> e + d]
          [] up /\ keep_l + 1 < Limb -> [h |-> keep_h, l |-> keep_l + 1, e |-> e + d]
          [] up /\ keep_l + 1 = Limb /\ keep_h + 1 < 2 * Limb ->
                [h |-> keep_h + 1, l |-> 0, e |-> e + d]
          [] OTHER -> [h |-> Limb, l |-> 0, e |-> e + d + 1]
\* n more bits of the quotient behind q, for a remainder r < b < 2^31: no
\* step leaves 31 bits.
RECURSIVE QuotientBits(_, _, _, _)
QuotientBits(r, b, n, q) ==
    IF n = 0 THEN [q |-> q, r |-> r]
    ELSE IF r >= b - r THEN QuotientBits(r - (b - r), b, n - 1, 2 * q + 1)
    ELSE QuotientBits(r + r, b, n - 1, 2 * q)
MoreBits(c, b, n) == QuotientBits(c.r, b, n, 0)
\* The mantissa bits of a / b for 2^30 <= a, b < 2^31: the quotient lies
\* between 1/2 and 2, its first 1 bit is taken at once and 53 bits follow,
\* nine at a time.
DivideScaled(a, b, e) ==
    LET lead == IF a >= b THEN [q |-> 1, r |-> a - b] ELSE [q |-> 1, r |-> a - (b - a)]
        c1 == MoreBits(lead, b, 9)
        c2 == MoreBits(c1, b, 9)
        c3 == MoreBits(c2, b, 9)
        c4 == MoreBits(c3, b, 9)
        c5 == MoreBits(c4, b, 9)
        c6 == MoreBits(c5, b, 8)
    IN  RoundFloat64(Pow2(27) + c1.q * Pow2(18) + c2.q * Pow2(9) + c3.q,
                     c4.q * Pow2(17) + c5.q * Pow2(8) + c6.q, c6.r # 0,
                     IF a >= b THEN e - 53 ELSE e - 54)
\* frames / sample_rate: the true quotient of two integers, a >= 0 and b > 0,
\* rounded once
TrueDivide(a, b) ==
    IF a = 0 THEN Zero64
    ELSE DivideScaled(a * Pow2(31 - BitLen(a)), b * Pow2(31 - BitLen(b)),
                      BitLen(a) - BitLen(b))
\* The mantissa of x cut by d >= 0 bits, in two limbs; and whether the bits
\* cut off are not all 0.
ShiftedRight(x, d) ==
    CASE d >= 53 -> [h |-> 0, l |-> 0]
      [] d >= 26 /\ d < 53 -> [h |-> (x.h \div Pow2(d - 26)) \div Limb,
                               l |-> (x.h \div Pow2(d - 26)) % Limb]
      [] OTHER -> [h |-> x.h \div Pow2(d),
                   l |-> (x.h % Pow2(d)) * Pow2(26 - d) + x.l \div Pow2(d)]
BitsCutOff(x, d) ==
    CASE d >= 53 -> x.h # 0
      [] d > 26 /\ d < 53 -> x.l # 0 \/ x.h % Pow2(d - 26) # 0
      [] OTHER -> x.l % Pow2(d) # 0
\* x + y for the exponent of x not below that of y, neither 0.0: y is
\* brought to a quarter of the last place of x, the rest of it sticky.
AddAligned(x, y) ==
    LET d == x.e - y.e
        part == ShiftedRight(y, d - 2)
    IN  IF d < 2
        THEN RoundFloat64(x.h * Pow2(d) + y.h + (x.l * Pow2(d) + y.l) \div Limb,
                          (x.l * Pow2(d) + y.l) % Limb, FALSE, y.e)
        ELSE RoundFloat64(x.h * 4 + part.h + (x.l * 4 + part.l) \div Limb,
                          (x.l * 4 + part.l) % Limb, BitsCutOff(y, d - 2), x.e - 2)
\* x + y in float64
Add64(x, y) ==
    CASE x.h = 0 -> y
      [] x.h # 0 /\ y.h = 0 -> x
      [] x.h # 0 /\ y.h # 0 /\ x.e >= y.e -> AddAligned(x, y)
      [] OTHER -> AddAligned(y, x)
\* x / 10 in float64: 16 * mantissa / 5 has 54 or 55 bits.
DividedBy10(x) ==
    IF x.h = 0 THEN Zero64
    ELSE LET low == ((x.h * 16) % 5) * Limb + x.l * 16
         IN  RoundFloat64((x.h * 16) \div 5 + (low \div 5) \div Limb,
                          (low \div 5) % Limb, low % 5 # 0, x.e - 5)
\* int(x)
Int64(x) ==
    IF x.e >= 0 THEN (x.h * Limb + x.l) * Pow2(x.e)
    ELSE ShiftedRight(x, -x.e).h * Limb + ShiftedRight(x, -x.e).l
\* The left-to-right sum of floats that starts from acc
RECURSIVE FSum(_, _)
FSum(acc, nums) ==
    IF nums = <<>> THEN acc ELSE FSum(Add64(acc, Head(nums)), Tail(nums))

\* ELVSequenceReportGenerator._get_wav_duration: frames / sample_rate, 0.0
\* for a zero rate.
_get_wav_duration(f) ==
    IF f.framerate > 0 THEN TrueDivide(f.nframes, f.framerate) ELSE Zero64

\* ELVSequenceReportGenerator._cache_audio_file_info, given the files of
\* rloops_dir (no two of them with the same upper-cased name)
_cache_audio_file_info(files) ==
    LET wavs == {f \in files : EndsWith(Upper(f.name), DOT_WAV)}
    IN  [key \in {Upper(f.name) : f \in wavs} |->
            LET f == CHOOSE g \in wavs : Upper(g.name) = key
            IN  [duration |-> _get_wav_duration(f), size_kb |-> f.size \div 1024]]

\* Line 102: {'duration': 0.0, 'size_kb': 0}
ZeroMetadata == [duration |-> Zero64, size_kb |-> 0]

\* ELVSequenceReportGenerator._check_audio_file_exists
\* Mutant: the report generator has no leading-digit fallback.
Report_check_audio_file_exists_no_fallback(filename, info) ==
    LET filename_upper == Upper(filename)
    IN  IF filename_upper \in DOMAIN info
        THEN [exists |-> TRUE, alternative |-> Some(filename_upper),
              metadata |-> info[filename_upper]]
        ELSE [exists |-> FALSE, alternative |-> None, metadata |-> ZeroMetadata]
Report_check_audio_file_exists(filename, info) ==
    LET filename_upper == Upper(filename)
        alt_filename == Upper(Slice(filename, 1, Len(filename)))
    IN  IF filename_upper \in DOMAIN info
        THEN [exists |-> TRUE, alternative |-> Some(filename_upper),
              metadata |-> info[filename_upper]]
        ELSE IF Len(filename) > 4 /\ IsDigit(filename[1])
                /\ alt_filename \in DOMAIN info
        THEN [exists |-> TRUE, alternative |-> Some(alt_filename),
              metadata |-> info[alt_filename]]
        ELSE [exists |-> FALSE, alternative |-> None, metadata |-> ZeroMetadata]

\* ELVSequenceReportGenerator._extract_audio_sequence_from_data
Report_extract_audio_sequence_from_data(bytes) ==
    LET text_data == DecodeAsciiIgnore(bytes)
        all_matches == SortByPosition(AllMatches(text_data, 1))
    IN  RemoveDuplicates(all_matches, {})

\* ELVSequenceReportGenerator._classify_audio_file
Report_classify_audio_file(filename) ==
    LET filename_upper == Upper(filename)
    IN  IF filename_upper = NOSOUND_WAV THEN "silence"
        ELSE IF StartsWithChar(filename_upper, 33) THEN "system"
        ELSE IF StartsWithChar(filename_upper, 88) THEN "special"
        ELSE IF ReMatch(ClassUpper \o Lit(RHYTH_WAV) \o Dollar, filename_upper)
             THEN "letter_rhythm"
        ELSE IF ReMatch(Digits \o Lit(RHYTH_WAV) \o Dollar, filename_upper)
             THEN "numbered_rhythm"
        ELSE "unknown"

\* sum(...) over a list of integers
RECURSIVE Sum(_)
Sum(nums) == IF nums = <<>> THEN 0 ELSE Head(nums) + Sum(Tail(nums))

Max0(x) == IF x > 0 THEN x ELSE 0

\* ELVSequenceReportGenerator._calculate_complexity_score
_calculate_complexity_score(seq) ==
    LET types == {seq[i].file_type : i \in 1..Len(seq)}
        total_duration == FSum(Zero64, [i \in 1..Len(seq) |-> seq[i].duration_seconds])
        missing_count ==
            Sum([i \in 1..Len(seq) |-> IF seq[i].exists_in_rloops THEN 0 ELSE 1])
    IN  Max0(Len(seq) * 2 + Cardinality(types) * 5 + Int64(DividedBy10(total_duration))
             - missing_count * 3)

\* int(match.group(1)) for a string of decimal digits
RECURSIVE ParseInt(_)
ParseInt(digits) ==
    IF digits = <<>> THEN 0
    ELSE ParseInt(SubSeq(digits, 1, Len(digits) - 1)) * 10
         + (digits[Len(digits)] - 48)

Note(text, n) == [text |-> text, n |-> n]

\* ELVSequenceReportGenerator._generate_analysis_notes.  A note is its text
\* and the number formatted into it at {} (0 when there is none; for the
\* silence positions, how many there are).
_generate_analysis_notes(seq) ==
    IF seq = <<>> THEN <<Note("No audio files found in this level", 0)>>
    ELSE
    LET IsRhythm(a) == a.file_type = "numbered_rhythm"
        HasNumber(a) == ReMatch(Digits \o Lit(RHYTH_WAV) \o Dollar, a.filename)
        rhythm_files == SelectSeq(seq, IsRhythm)
        numbered == SelectSeq(rhythm_files, HasNumber)
        rhythm_numbers ==
            [i \in 1..Len(numbered) |->
                ParseInt(SubSeq(numbered[i].filename, 1,
                                DigitRun(numbered[i].filename, 0)))]
        Ascending == \A i \in 1..(Len(rhythm_numbers) - 1) :
                        rhythm_numbers[i] <= rhythm_numbers[i + 1]
        Descending == \A i \in 1..(Len(rhythm_numbers) - 1) :
                        rhythm_numbers[i] >= rhythm_numbers[i + 1]
        silence_positions == {i \in 0..(Len(seq) - 1) : seq[i + 1].file_type = "silence"}
        IsSystem(a) == a.file_type = "system"
        IsSpecial(a) == a.file_type = "special"
        IsMissing(a) == ~a.exists_in_rloops
        system_files == SelectSeq(seq, IsSystem)
        special_files == SelectSeq(seq, IsSpecial)
        missing_files == SelectSeq(seq, IsMissing)
    IN  (IF Len(rhythm_files) > 1 /\ rhythm_numbers # <<>>
         THEN IF Ascending
              THEN <<Note("Rhythm files are in ascending numerical order", 0)>>
              ELSE IF Descending
              THEN <<Note("Rhythm files are in descending numerical order", 0)>>
              ELSE <<Note("Rhythm files follow a custom sequence pattern", 0)>>
         ELSE <<>>)
        \o (IF 0 \in silence_positions
            THEN <<Note("Level starts with silence", 0)>> ELSE <<>>)
        \o (IF (Len(seq) - 1) \in silence_positions
            THEN <<Note("Level ends with silence", 0)>> ELSE <<>>)
        \o (IF Cardinality(silence_positions) > 1
            THEN <<Note("Multiple silence files at positions: {}", Cardinality(silence_positions))>>
            ELSE <<>>)
        \o (IF system_files # <<>>
            THEN <<Note("Contains {} system audio file(s)", Len(system_files))>> ELSE <<>>)
        \o (IF special_files # <<>>
            THEN <<Note("Contains {} special audio file(s)", Len(special_files))>> ELSE <<>>)
        \o (IF missing_files # <<>>
            THEN <<Note("{} audio files are missing from rloops directory", Len(missing_files))>>
            ELSE <<>>)

UNKNOWN_TITLE == <<85, 110, 107, 110, 111, 119, 110>>    \* "Unknown"

\* Lines 244-256: the ELVSequenceReport generate_elv_report starts from.
DefaultReport ==
    [level_title |-> UNKNOWN_TITLE, elvd_version |-> 0, total_audio_files |-> 0,
     available_audio_files |-> 0, missing_audio_files |-> 0, total_duration |-> Zero64,
     audio_sequence |-> <<>>, type_breakdown |-> <<>>, complexity_score |-> 0,
     analysis_notes |-> <<>>]

\* Lines 292-312: one AudioSequenceInfo per entry of the sequence.
AudioSequenceInfo(seq_pos, entry, info) ==
    LET checked == Report_check_audio_file_exists(entry.filename, info)
    IN  [sequence_position |-> seq_pos,
         filename |-> entry.filename,
         file_type |-> Report_classify_audio_file(entry.filename),
         exists_in_rloops |-> checked.exists,
         binary_offset |-> entry.position,
         duration_seconds |-> checked.metadata.duration,
         file_size_kb |-> checked.metadata.size_kb,
         alternative_found |->
             IF checked.alternative # Some(Upper(entry.filename))
             THEN checked.alternative ELSE None]

\* Lines 296-298: the entries whose duration is added to the total
IsAvailable(audio_info) == audio_info.exists_in_rloops

\* ELVSequenceReportGenerator.generate_elv_report
generate_elv_report(file, info) ==
    IF file = None
    THEN [DefaultReport EXCEPT !.analysis_notes = <<Note("File not found", 0)>>]
    ELSE LET bytes == file[1]
         IN  IF Len(bytes) < 8 \/ Slice(bytes, 0, 4) # ELVD
             THEN [DefaultReport EXCEPT
                      !.analysis_notes = <<Note("Invalid ELVD header", 0)>>]
             ELSE LET raw == Report_extract_audio_sequence_from_data(bytes)
                      seq == [i \in 1..Len(raw) |-> AudioSequenceInfo(i - 1, raw[i], info)]
                      title == ExtractLevelTitle(bytes)
                      available_count ==
                          Sum([i \in 1..Len(seq) |->
                                  IF seq[i].exists_in_rloops THEN 1 ELSE 0])
                      available == SelectSeq(seq, IsAvailable)
                      total_duration ==
                          FSum(Zero64, [i \in 1..Len(available) |->
                                           available[i].duration_seconds])
                      types == {seq[i].file_type : i \in 1..Len(seq)}
                  IN  [level_title |-> IF title = None THEN UNKNOWN_TITLE ELSE title[1],
                       elvd_version |-> UnpackLE16(Slice(bytes, 4, 6)),
                       total_audio_files |-> Len(raw),
                       available_audio_files |-> available_count,
                       missing_audio_files |-> Len(raw) - available_count,
                       total_duration |-> total_duration,
                       audio_sequence |-> seq,
                       type_breakdown |->
                           [t \in types |->
                               Cardinality({i \in 1..Len(seq) : seq[i].file_type = t})],
                       complexity_score |-> _calculate_complexity_score(seq),
                       analysis_notes |-> _generate_analysis_notes(seq)]

(***************************************************************************)
(* Batch runs: extract_all_files and generate_all_reports.  A directory is *)
(* a set of entries [name, file]; file is None for a name whose file is    *)
(* not there (a dangling link), else the bytes of the file.                *)
(***************************************************************************)
DOT_ELV == <<46, 69, 76, 86>>                                   \* ".ELV"

\* a < b for str: the order list.sort() puts the paths of one directory in.
RECURSIVE LexLess(_, _)
LexLess(a, b) ==
    IF b = <<>> THEN FALSE
    ELSE IF a = <<>> THEN TRUE
    ELSE IF a[1] # b[1] THEN a[1] < b[1]
    ELSE LexLess(Tail(a), Tail(b))
RECURSIVE SortNames(_)
SortNames(names) ==
    IF names = {} THEN <<>>
    ELSE LET first == CHOOSE x \in names : \A y \in names \ {x} : LexLess(x, y)
         IN  <<first>> \o SortNames(names \ {first})

\* The names of os.listdir that end in .ELV whatever their case, sorted.
ElvFiles(dir) ==
    SortNames({e.name : e \in {x \in dir : EndsWith(Upper(x.name), DOT_ELV)}})
FileAt(dir, name) == (CHOOSE e \in dir : e.name = name).file

\* Lines 262-268 of the extractor: one ELVFileInfo per file, in order.
\* Mutant: the run ends at the first file that does not parse.
RECURSIVE ParseEach_stop_at_failure(_, _, _)
ParseEach_stop_at_failure(elv_files, dir, inventory) ==
    IF elv_files = <<>> THEN <<>>
    ELSE LET parsed == parse_elv_file(FileAt(dir, Head(elv_files)), inventory)
         IN  <<[filename |-> Head(elv_files), info |-> parsed]>>
             \o (IF parsed.parse_success
                 THEN ParseEach_stop_at_failure(Tail(elv_files), dir, inventory)
                 ELSE <<>>)
ParseEach(elv_files, dir, inventory) ==
    [i \in 1..Len(elv_files) |->
        [filename |-> elv_files[i],
         info |-> parse_elv_file(FileAt(dir, elv_files[i]), inventory)]]

\* SequencePreservingELVExtractor.extract_all_files: the return value and
\* the list self.extracted_files it leaves.
extract_all_files(dir, inventory, extracted) ==
    IF dir = None
    THEN [result |-> FALSE, extracted_files |-> extracted]
    ELSE IF ElvFiles(dir[1]) = <<>>
    THEN [result |-> FALSE, extracted_files |-> extracted]
    ELSE [result |-> TRUE,
          extracted_files |-> extracted \o ParseEach(ElvFiles(dir[1]), dir[1], inventory)]

\* SequencePreservingELVExtractor.save_sequence_data: the JSON document
\* written to output_file (the timestamp and the directory names left out).
save_sequence_data(extracted) ==
    [total_files |-> Len(extracted),
     successful_files |->
         Cardinality({i \in 1..Len(extracted) : extracted[i].info.parse_success}),
     sequence_preserved |-> TRUE,
     files |-> extracted]

\* Lines 358-361 of the report generator: one report per file, in order.
ReportEach(elv_files, dir, info) ==
    [i \in 1..Len(elv_files) |->
        [filename |-> elv_files[i],
         report |-> generate_elv_report(FileAt(dir, elv_files[i]), info)]]

\* ELVSequenceReportGenerator.generate_all_reports
generate_all_reports(dir, info, old_reports) ==
    IF dir = None
    THEN [result |-> FALSE, reports |-> old_reports]
    ELSE IF ElvFiles(dir[1]) = <<>>
    THEN [result |-> FALSE, reports |-> old_reports]
    ELSE [result |-> TRUE,
          reports |-> old_reports \o ReportEach(ElvFiles(dir[1]), dir[1], info)]

(***************************************************************************)
(* Sequence renderer (sequence_preserving_music_generator.py).  A float is *)
(* held exactly, as the record [m, e] that stands for m * 2^e with m odd,  *)
(* or with m = 0 and e = 0: one record for one value.  A float32 has a     *)
(* mantissa m of at most 24 bits.  Exponents stay far from the limits of   *)
(* the formats, and mantissas below 2^31.                                  *)
(***************************************************************************)
target_sample_rate == 44100

Min(a, b) == IF a < b THEN a ELSE b
Abs(x) == IF x < 0 THEN -x ELSE x
\* Number of zero bits that end n > 0.
TrailingZeros(n) == CHOOSE k \in 0..30 : n % Pow2(k) = 0 /\ (n \div Pow2(k)) % 2 = 1
\* The float n * 2^e.
Dyadic(n, e) ==
    IF n = 0 THEN [m |-> 0, e |-> 0]
    ELSE IF n < 0 THEN [m |-> -((-n) \div Pow2(TrailingZeros(-n))),
                        e |-> e + TrailingZeros(-n)]
    ELSE [m |-> n \div Pow2(TrailingZeros(n)), e |-> e + TrailingZeros(n)]
Zero == Dyadic(0, 0)
One == Dyadic(1, 0)
Negated(x) == [m |-> -x.m, e |-> x.e]
\* np.abs
FAbs(x) == [m |-> Abs(x.m), e |-> x.e]
\* |a| < |b|: by the position of the highest bit, then by the mantissas
\* brought to one exponent.
MagnitudeLess(a, b) ==
    CASE a.m = 0 -> b.m # 0
      [] a.m # 0 /\ b.m = 0 -> FALSE
      [] a.m # 0 /\ b.m # 0 /\ BitLen(Abs(a.m)) + a.e # BitLen(Abs(b.m)) + b.e ->
            BitLen(Abs(a.m)) + a.e < BitLen(Abs(b.m)) + b.e
      [] OTHER ->
            IF a.e >= b.e THEN Abs(a.m) * Pow2(a.e - b.e) < Abs(b.m)
            ELSE Abs(a.m) < Abs(b.m) * Pow2(b.e - a.e)
\* The float32 nearest to (n + f) * 2^e for an integer n >= 0 and a fraction
\* 0 <= f < 1 that is not 0 exactly when sticky; a tie goes to the even
\* mantissa.  With sticky, n has more than 24 bits.
RoundFloat32(n, sticky, e) ==
    IF BitLen(n) <= 24 THEN Dyadic(n, e)
    ELSE LET d == BitLen(n) - 24
             keep == n \div Pow2(d)
             rest == n % Pow2(d)
             up == \/ rest > Pow2(d - 1)
                   \/ rest = Pow2(d - 1) /\ (sticky \/ keep % 2 = 1)
         IN  Dyadic(IF up THEN keep + 1 ELSE keep, e + d)
\* The integer part of n * 2^e, as int() and astype(np.int16) cut a float.
TruncScaled(n, e) ==
    IF e >= 0 THEN n * Pow2(e)
    ELSE IF e < -30 THEN 0
    ELSE IF n < 0 THEN -((-n) \div Pow2(-e))
    ELSE n \div Pow2(-e)
\* Line 205: x / peak in float32, for peak # 0.  Both mantissas are brought
\* to 24 bits, so that the quotient lies between 1/2 and 2; 28 bits of it
\* after the binary point are taken seven at a time and rounded.
Quotient(x, peak) ==
    IF x.m = 0 THEN Zero
    ELSE LET sx == 24 - BitLen(Abs(x.m))
             sp == 24 - BitLen(Abs(peak.m))
             a == Abs(x.m) * Pow2(sx)
             b == Abs(peak.m) * Pow2(sp)
             r0 == a % b
             r1 == (r0 * 128) % b
             r2 == (r1 * 128) % b
             r3 == (r2 * 128) % b
             r4 == (r3 * 128) % b
             q == (a \div b) * Pow2(28) + ((r0 * 128) \div b) * Pow2(21)
                  + ((r1 * 128) \div b) * Pow2(14) + ((r2 * 128) \div b) * 128
                  + (r3 * 128) \div b
             magnitude == RoundFloat32(q, r4 # 0, (x.e - sx) - (peak.e - sp) - 28)
         IN  IF (x.m < 0) # (peak.m < 0) THEN Negated(magnitude) ELSE magnitude

\* SequencePreservingMusicGenerator.get_level_info; extraction_data is None
\* when it has no 'files' key.
get_level_info(extraction, name) ==
    IF extraction = None THEN None
    ELSE LET files == extraction[1]
             hits == {i \in 1..Len(files) : Upper(files[i].filename) = Upper(name)}
         IN  IF hits = {} THEN None
             ELSE Some(files[CHOOSE i \in hits : \A j \in hits : i <= j])

\* Lines 81-102: one frame to one float32 mono sample, by sample width and
\* channel count; the mean of a stereo frame is (left + right) / 2.
SupportedFormat(f) == f.sampwidth \in {1, 2} /\ f.channels \in {1, 2}
\* Mutant: the mid-point is not taken off an 8-bit sample.
DecodeFrame_no_midpoint(f, frame) ==
    CASE f.sampwidth = 1 /\ f.channels = 2 -> Dyadic(frame[1] + frame[2], -8)
      [] f.sampwidth = 2 /\ f.channels = 2 -> Dyadic(frame[1] + frame[2], -16)
      [] f.sampwidth = 2 /\ f.channels = 1 -> Dyadic(frame[1], -15)
      [] f.sampwidth = 1 /\ f.channels = 1 -> Dyadic(frame[1], -7)
DecodeFrame(f, frame) ==
    CASE f.sampwidth = 1 /\ f.channels = 2 -> Dyadic(frame[1] + frame[2] - 256, -8)
      [] f.sampwidth = 2 /\ f.channels = 2 -> Dyadic(frame[1] + frame[2], -16)
      [] f.sampwidth = 2 /\ f.channels = 1 -> Dyadic(frame[1], -15)
      [] f.sampwidth = 1 /\ f.channels = 1 -> Dyadic(frame[1] - 128, -7)

\* np.repeat(audio_float, k) and audio_float[::k]
Repeat(s, k) == [i \in 1..(Len(s) * k) |-> s[((i - 1) \div k) + 1]]
\* Mutant: a last group of fewer than k samples gives no sample.
Decimate_whole_groups(s, k) == [i \in 1..(Len(s) \div k) |-> s[(i - 1) * k + 1]]
Decimate(s, k) == [i \in 1..((Len(s) + k - 1) \div k) |-> s[(i - 1) * k + 1]]

\* Lines 104-112: resampling by repetition or decimation.
Resample(audio_float, framerate) ==
    IF framerate = target_sample_rate THEN audio_float
    ELSE IF framerate < target_sample_rate
         THEN Repeat(audio_float, target_sample_rate \div framerate)
         ELSE Decimate(audio_float, framerate \div target_sample_rate)

\* SequencePreservingMusicGenerator.load_audio_file: None when the file is
\* not in the directory under this very name, when wave.open raises, and
\* when the format is not 8/16 bit mono/stereo.
load_audio_file(filename, dir) ==
    LET found == {f \in dir : f.name = filename}
    IN  IF found = {} THEN None
        ELSE LET f == CHOOSE x \in found : TRUE
             IN  IF ~f.is_wave THEN None
                 ELSE IF ~SupportedFormat(f) THEN None
                 ELSE Some(Resample([i \in 1..Len(f.frames) |->
                                        DecodeFrame(f, f.frames[i])],
                                    f.framerate))

\* sorted(level_info['audio_files'], key=sequence_position): stable.
RECURSIVE InsertBySequencePosition(_, _)
InsertBySequencePosition(sorted, a) ==
    IF sorted = <<>> THEN <<a>>
    ELSE IF sorted[Len(sorted)].sequence_position <= a.sequence_position
         THEN Append(sorted, a)
         ELSE Append(InsertBySequencePosition(SubSeq(sorted, 1, Len(sorted) - 1), a),
                     sorted[Len(sorted)])
RECURSIVE SortBySequencePosition(_)
SortBySequencePosition(as) ==
    IF as = <<>> THEN <<>>
    ELSE InsertBySequencePosition(SortBySequencePosition(SubSeq(as, 1, Len(as) - 1)),
                                  as[Len(as)])

\* Lines 139-164: the clips of the entries that are not silence and load.
\* Mutant: a silence entry is loaded like any other entry.
RECURSIVE LoadClips_keep_silence(_, _)
LoadClips_keep_silence(audio_files_sorted, dir) ==
    IF audio_files_sorted = <<>> THEN <<>>
    ELSE LET audio_info == Head(audio_files_sorted)
             rest == LoadClips_keep_silence(Tail(audio_files_sorted), dir)
             audio_data == load_audio_file(audio_info.filename, dir)
         IN  IF audio_data # None
             THEN <<[filename |-> audio_info.filename,
                     audio_data |-> audio_data[1],
                     seq_pos |-> audio_info.sequence_position]>> \o rest
             ELSE rest
\* Mutant: the first entry that fails to load ends the clip list.
RECURSIVE LoadClips_stop_at_failure(_, _)
LoadClips_stop_at_failure(audio_files_sorted, dir) ==
    IF audio_files_sorted = <<>> THEN <<>>
    ELSE LET audio_info == Head(audio_files_sorted)
             rest == LoadClips_stop_at_failure(Tail(audio_files_sorted), dir)
             audio_data == load_audio_file(audio_info.filename, dir)
         IN  IF audio_info.file_type = "silence" THEN rest
             ELSE IF audio_data # None
                  THEN <<[filename |-> audio_info.filename,
                          audio_data |-> audio_data[1],
                          seq_pos |-> audio_info.sequence_position]>> \o rest
                  ELSE <<>>
RECURSIVE LoadClips(_, _)
LoadClips(audio_files_sorted, dir) ==
    IF audio_files_sorted = <<>> THEN <<>>
    ELSE LET audio_info == Head(audio_files_sorted)
             rest == LoadClips(Tail(audio_files_sorted), dir)
             audio_data == load_audio_file(audio_info.filename, dir)
         IN  IF audio_info.file_type = "silence" THEN rest
             ELSE IF audio_data # None
                  THEN <<[filename |-> audio_info.filename,
                          audio_data |-> audio_data[1],
                          seq_pos |-> audio_info.sequence_position]>> \o rest
                  ELSE rest

\* Line 174: int(duration_seconds * self.target_sample_rate).  The product
\* of a float of mantissa m by the rate has the mantissa m * 44100, which a
\* float64 holds exactly: nothing is rounded before the cut toward zero.
\* 44100 is 11025 * 4, and m * 11025 is high * 2^16 + low.
TargetSamples(duration) ==
    LET m == Abs(duration.m)
        high == (m \div 65536) * 11025 + ((m % 65536) * 11025) \div 65536
        low == ((m % 65536) * 11025) % 65536
        k == -(duration.e + 2)
        magnitude == CASE k >= 46 -> 0
                       [] k >= 16 /\ k < 46 -> high \div Pow2(k - 16)
                       [] k >= 0 /\ k < 16 -> high * Pow2(16 - k) + low \div Pow2(k)
                       [] OTHER -> (high * 65536 + low) * Pow2(-k)
    IN  IF duration.m < 0 THEN -magnitude ELSE magnitude

\* np.zeros(n, dtype=np.float32)
Zeros(n) == [i \in 1..n |-> Zero]

\* Line 190: min(len(audio_data), remaining_samples)
SamplesToCopy(audio_data, remaining_samples) == Min(Len(audio_data), remaining_samples)

\* Line 193: music_buffer[pos:pos + n] = audio_data[:n]
\* Mutant: an overflowing clip is cut at its start, its last n samples kept.
CopyInto_tail(buffer, pos, audio_data, n) ==
    [i \in 1..Len(buffer) |->
        IF i > pos /\ i <= pos + n
        THEN audio_data[Len(audio_data) - n + i - pos] ELSE buffer[i]]
CopyInto(buffer, pos, audio_data, n) ==
    [i \in 1..Len(buffer) |->
        IF i > pos /\ i <= pos + n THEN audio_data[i - pos] ELSE buffer[i]]

\* Line 203: np.max(np.abs(music_buffer)) of a buffer that is not empty.
MaxAmplitude(buffer) ==
    CHOOSE a \in {FAbs(buffer[i]) : i \in 1..Len(buffer)} :
        \A i \in 1..Len(buffer) : ~MagnitudeLess(a, buffer[i])

\* Lines 204-205: music_buffer / max_amplitude when max_amplitude > 1.0.
\* Mutant: every buffer that is not silent is brought to the peak 1.0.
Normalized_any_peak(buffer) ==
    IF MagnitudeLess(Zero, MaxAmplitude(buffer))
    THEN [i \in 1..Len(buffer) |-> Quotient(buffer[i], MaxAmplitude(buffer))]
    ELSE buffer
Normalized(buffer) ==
    IF MagnitudeLess(One, MaxAmplitude(buffer))
    THEN [i \in 1..Len(buffer) |-> Quotient(buffer[i], MaxAmplitude(buffer))]
    ELSE buffer

\* An integer outside the int16 range wraps around.
Wrap16(x) == ((x + 32768) % 65536) - 32768
\* x * 32767 in float32.  The product of the mantissa of x by 32767 is
\* h * 4096 + l; its leading 30 bits are rounded, what comes after them
\* being sticky.
Times32767(x) ==
    LET low == (Abs(x.m) % 4096) * 32767
        h == (Abs(x.m) \div 4096) * 32767 + low \div 4096
        l == low % 4096
        s == IF BitLen(h) > 18 THEN BitLen(h) - 18 ELSE 0
        magnitude == RoundFloat32(h * Pow2(12 - s) + l \div Pow2(s),
                                  l % Pow2(s) # 0, x.e + s)
    IN  IF x.m < 0 THEN Negated(magnitude) ELSE magnitude
\* audio_data * 32767 for one sample, cut to an integer.
Scale32767(x) == TruncScaled(Times32767(x).m, Times32767(x).e)
\* Line 216 of save_music: (audio_data * 32767).astype(np.int16)
save_music(audio_data) == [i \in 1..Len(audio_data) |-> Wrap16(Scale32767(audio_data[i]))]

(***************************************************************************)
(* Inputs: blobs and level files built from fragments, the rloops          *)
(* directory, filenames.                                                   *)
(***************************************************************************)
TokenFragments ==
    { <<49>> \o RHYTH_WAV,                        \* "1RHYTH.WAV"
      <<49, 50>> \o Lower(RHYTH_WAV),             \* "12rhyth.wav"
      <<88>> \o RHYTH_WAV,                        \* "XRHYTH.WAV"
      <<33, 57>> \o RHYT_WAV,                     \* "!9RHYT.WAV"
      NOSOUND_WAV,                                \* "NOSOUND.WAV"
      <<0>> }                                     \* NUL
Fragments ==
    TokenFragments \cup
    { <<54>>,                                     \* "6"
      <<255>>,                                    \* one byte >= 0x80
      <<49, 82, 104, 121, 116, 104, 46, 87, 97, 118>>,    \* "1Rhyth.Wav"
      <<65>> \o RHYTH_WAV,                        \* "ARHYTH.WAV"
      <<120, 57>> \o Lower(RHYT_WAV),             \* "x9rhyt.wav"
      <<49, 50, 82, 72, 89, 255, 84, 72, 46, 87, 65, 86>> } \* "12RHY" FF "TH.WAV"

RECURSIVE Payloads(_, _)
Payloads(frags, n) ==
    IF n = 0 THEN {<<>>}
    ELSE LET shorter == Payloads(frags, n - 1)
         IN  shorter \cup {p \o f : p \in shorter, f \in frags}

ValidHeaders ==
    { ELVD \o <<1, 0, 0, 0>>,                     \* version 1
      ELVD \o <<144, 1, 0, 0>> }                  \* version 400: byte >= 0x80
BadHeaders ==
    { <<>>,                                       \* empty file
      <<69, 76, 86, 88, 1, 0, 0, 0>>,             \* b'ELVX': wrong magic
      ELVD \o <<1, 0>> }                          \* shorter than 8 bytes

Blobs == {h \o p : h \in ValidHeaders \cup BadHeaders, p \in Payloads(Fragments, MaxFrags)}

\* The level file at filepath: missing, with a bad header, or well-formed.
LevelFiles ==
    {None}
    \cup {Some(h \o p) : h \in BadHeaders, p \in Payloads(TokenFragments, 1)}
    \cup {Some(h \o p) : h \in ValidHeaders, p \in Payloads(TokenFragments, MaxFileFrags)}

\* The files of the rloops directory.
RloopsDir ==
    { [name |-> <<49>> \o Lower(RHYTH_WAV),       \* "1rhyth.wav", 2.1 s
       nframes |-> 46305, framerate |-> 22050, size |-> 46349],
      [name |-> RHYTH_WAV,                        \* "RHYTH.WAV", 12 s
       nframes |-> 132300, framerate |-> 11025, size |-> 132344],
      [name |-> <<50>> \o RHYTH_WAV,              \* "2RHYTH.WAV", 1/3 s
       nframes |-> 3675, framerate |-> 11025, size |-> 3719],
      [name |-> <<78, 79, 84, 69, 83, 46, 84, 88, 84>>,   \* "NOTES.TXT"
       nframes |-> 0, framerate |-> 0, size |-> 10] }

\* The rloops directories a level file is parsed against: empty, complete,
\* and two partial installations.
Installations ==
    { {}, RloopsDir,
      {f \in RloopsDir : f.name \in {<<49>> \o Lower(RHYTH_WAV),
                                     <<78, 79, 84, 69, 83, 46, 84, 88, 84>>}},
      {f \in RloopsDir : f.name \in {RHYTH_WAV, <<50>> \o RHYTH_WAV}} }

\* Filenames: a short prefix before a stem.
\* Level files with a valid header whose payload is made of text fragments,
\* NUL separators and bytes that are not printable.
TUTORIAL_01 == <<84, 117, 116, 111, 114, 105, 97, 108, 32, 48, 49>>   \* "Tutorial 01"
LEVEL_NINE == <<76, 101, 118, 101, 108, 32, 78, 105, 110, 101>>       \* "Level Nine"
BACKDROP_LBM == <<98, 97, 99, 107, 100, 114, 111, 112, 48, 49>> \o DOT_LBM  \* "backdrop01.lbm"
LongText == [i \in 1..52 |-> 65 + (i % 26)]                           \* 52 letters
TitleFragments ==
    { <<0>>,                                      \* NUL
      <<1>>,                                      \* a control character
      <<32>>,                                     \* a space
      <<255>>,                                    \* one byte >= 0x80
      TUTORIAL_01, LEVEL_NINE, BACKDROP_LBM, Upper(BACKDROP_LBM) }
TitledPayloads ==
    Payloads(TitleFragments, MaxTitleFrags)
    \cup {p \o LongText \o q : p \in Payloads(TitleFragments, 1),
                                q \in Payloads(TitleFragments, 1)}
TitledFiles == {Some(ELVD \o <<1, 0, 0, 0>> \o p) : p \in TitledPayloads}

\* Level files with the magic and every combination of a few values of the
\* bytes 4..7, followed by nothing or by one reference.
HeaderBytes == {0, 1, 144, 255}
ReservedBytes == {0, 255}
VersionedFiles ==
    {Some(ELVD \o <<b4, b5, b6, b7>> \o p) :
        b4 \in HeaderBytes, b5 \in HeaderBytes,
        b6 \in ReservedBytes, b7 \in ReservedBytes,
        p \in {<<>>, <<49>> \o RHYTH_WAV}}

\* A session of both tools: the filename asked for, the level file parsed
\* and the ELVRL directory of the batch.
SessionInstallations ==
    { RloopsDir, {f \in RloopsDir : f.name # <<50>> \o RHYTH_WAV} }
SessionNames ==
    { <<49>> \o Lower(RHYTH_WAV),                \* "1rhyth.wav": in RloopsDir
      <<49, 50>> \o RHYTH_WAV,                   \* "12RHYTH.WAV": "2RHYTH.WAV" is
      <<88>> \o RHYTH_WAV }                      \* "XRHYTH.WAV": not in RloopsDir
SessionFiles ==
    { None,
      Some(<<69, 76, 86, 88, 1, 0, 0, 0>>),       \* b'ELVX': wrong magic
      Some(ELVD \o <<1, 0, 0, 0>> \o <<49, 50>> \o Lower(RHYTH_WAV) \o <<0>>
           \o <<88>> \o RHYTH_WAV \o <<49>> \o RHYTH_WAV) }
SessionDirs ==
    { None,
      Some({}),
      Some({[name |-> <<66>> \o DOT_ELV,
             file |-> Some(ELVD \o <<1, 0, 0, 0>> \o <<49, 50>> \o RHYTH_WAV
                           \o <<0>> \o <<88>> \o RHYTH_WAV)],
            [name |-> <<97, 46, 101, 108, 118>>,
             file |-> Some(ELVD \o <<1, 0>>)]}) }

PrefixChars == {49, 54, 97, 88, 120, 33, 78, 10}  \* 1 6 a X x ! N newline
Stems ==
    { <<>>, RHYTH_WAV, Lower(RHYTH_WAV), RHYT_WAV,
      <<79, 83, 79, 85, 78, 68, 46, 87, 65, 86>>,         \* "OSOUND.WAV"
      <<111, 115, 111, 117, 110, 100, 46, 119, 97, 118>>, \* "osound.wav"
      RHYTH_WAV \o <<10>>,                                \* "RHYTH.WAV\n"
      RHYTH_WAV \o <<69>>,                                \* "RHYTH.WAVE"
      DOT_WAV }
RECURSIVE Prefixes(_)
Prefixes(n) ==
    IF n = 0 THEN {<<>>}
    ELSE LET shorter == Prefixes(n - 1)
         IN  shorter \cup {Append(p, c) : p \in shorter, c \in PrefixChars}
Filenames == {p \o s : p \in Prefixes(MaxPrefix), s \in Stems}

\* The WAV files of the renderer's rloops directory.  frames holds one tuple
\* of channel values per frame; is_wave is FALSE for a file wave.open rejects.
RloopsWavs ==
    { [name |-> <<49>> \o RHYTH_WAV,              \* "1RHYTH.WAV": 2 samples
       is_wave |-> TRUE, channels |-> 1, sampwidth |-> 2, framerate |-> 44100,
       frames |-> << <<100>>, <<-200>> >>],
      [name |-> <<50>> \o RHYTH_WAV,              \* "2RHYTH.WAV": 1 sample
       is_wave |-> TRUE, channels |-> 1, sampwidth |-> 1, framerate |-> 44100,
       frames |-> << <<130>> >>],
      [name |-> <<65>> \o RHYTH_WAV,              \* "ARHYTH.WAV": 1 frame twice
       is_wave |-> TRUE, channels |-> 2, sampwidth |-> 1, framerate |-> 22050,
       frames |-> << <<120, 130>> >>],
      [name |-> <<88, 57>> \o RHYT_WAV,           \* "X9RHYT.WAV": 1 frame of 2
       is_wave |-> TRUE, channels |-> 2, sampwidth |-> 2, framerate |-> 88200,
       frames |-> << <<1, 3>>, <<5, 7>> >>],
      [name |-> <<33, 57>> \o RHYT_WAV,           \* "!9RHYT.WAV": no frame
       is_wave |-> TRUE, channels |-> 1, sampwidth |-> 2, framerate |-> 44100,
       frames |-> << >>],
      [name |-> <<66>> \o RHYTH_WAV,              \* "BRHYTH.WAV": 24-bit
       is_wave |-> TRUE, channels |-> 1, sampwidth |-> 3, framerate |-> 44100,
       frames |-> << <<7>> >>],
      [name |-> <<51>> \o RHYTH_WAV,              \* "3RHYTH.WAV": not a WAV
       is_wave |-> FALSE, channels |-> 0, sampwidth |-> 0, framerate |-> 0,
       frames |-> << >>],
      [name |-> NOSOUND_WAV,                      \* "NOSOUND.WAV"
       is_wave |-> TRUE, channels |-> 1, sampwidth |-> 1, framerate |-> 44100,
       frames |-> << <<128>> >>] }

\* 16-bit mono files "1RHYTH.WAV" of 0..MaxFrames frames with distinct
\* sample values, at rates below, at and above the target rate, multiples
\* of it or not.
SourceRates == {8000, 11025, 22050, 30000, 44100, 50000, 88200, 100000, 132300}
SourceFrames(n) == [i \in 1..n |-> <<IF i % 2 = 1 THEN 100 * i ELSE -(100 * i)>>]
ResampleWavs ==
    { [name |-> <<49>> \o RHYTH_WAV,
       is_wave |-> TRUE, channels |-> 1, sampwidth |-> 2, framerate |-> r,
       frames |-> SourceFrames(n)] : r \in SourceRates, n \in 0..MaxFrames }

\* Files "1RHYTH.WAV" of 1..MaxSaveFrames frames whose samples are the least,
\* the middle and the greatest value of their width, mono and stereo; and,
\* at 16 bits, the value 2, whose mean with the greatest value is a sample
\* that float32 rounds up to a whole number when it is multiplied by 32767.
ExtremeValues(sampwidth) == IF sampwidth = 1 THEN {0, 128, 255} ELSE {-32768, 0, 2, 32767}
ExtremeFrames(sampwidth, channels) ==
    UNION {[1..n -> [1..channels -> ExtremeValues(sampwidth)]] : n \in 1..MaxSaveFrames}
ExtremeWavsOf(sampwidth, channels) ==
    { [name |-> <<49>> \o RHYTH_WAV,
       is_wave |-> TRUE, channels |-> channels, sampwidth |-> sampwidth,
       framerate |-> target_sample_rate,
       frames |-> fr] : fr \in ExtremeFrames(sampwidth, channels) }
ExtremeWavs ==
    ExtremeWavsOf(1, 1) \cup ExtremeWavsOf(1, 2)
    \cup ExtremeWavsOf(2, 1) \cup ExtremeWavsOf(2, 2)

\* The filenames a level refers to: those of RloopsWavs but "ARHYTH.WAV",
\* and "12RHYTH.WAV", which is not in the directory.
MusicNames ==
    ({f.name : f \in RloopsWavs} \ { <<65>> \o RHYTH_WAV })
    \cup { <<49, 50>> \o RHYTH_WAV }

\* A record of extraction_data['files'], as save_sequence_data writes the
\* ELVFileInfo of parse_elv_file: the entries are in sequence order, no
\* filename twice, resolved against the inventory of the directory.
A_ELV == <<65, 46, 69, 76, 86>>     \* "A.ELV"
OffsetOfEntry(i) == 8 + 16 * (i - 1)
LevelRecord(name, names) ==
    LET inventory == _cache_available_audio_files({f.name : f \in RloopsWavs})
        audio_files ==
            [i \in 1..Len(names) |->
                AudioInfo(i - 1, [filename |-> names[i], position |-> OffsetOfEntry(i)],
                          inventory)]
    IN  [filename |-> name, audio_files |-> audio_files,
         audio_count |-> Len(audio_files)]
LevelSequences ==
    {s \in UNION {[1..n -> MusicNames] : n \in 0..MaxClips} :
        \A i, j \in 1..Len(s) : s[i] = s[j] => i = j}
ExtractionData ==
    {None} \cup
    {Some(<<LevelRecord(<<66, 46, 69, 76, 86>>, <<NOSOUND_WAV>>),       \* "B.ELV"
            LevelRecord(A_ELV, names)>>) : names \in LevelSequences}
LevelFilenames ==
    { <<97, 46, 101, 108, 118>>,    \* "a.elv"
      <<67, 46, 69, 76, 86>> }      \* "C.ELV"
\* Durations of 0..MaxDurationNum / 65536 s: floats, of up to 6 samples.
Durations == {Dyadic(n, -16) : n \in 0..MaxDurationNum}
\* A duration of n samples: 3 / 2^17 s is a little more than one sample
\* period, and n times it less than n + 1 periods.
DurationOfSamples(n) == Dyadic(3 * n, -17)

\* Filled buffers for the normalization, of samples 0, 0.5, 0.75, 1.0, 1.5
\* and 2.0 of either sign: peaks at, below and above 1.0, and quotients by
\* the peak that float32 holds exactly (0.75 / 1.5) or rounds (1.0 / 1.5).
SampleQuarters == {-8, -6, -4, -3, -2, 0, 2, 3, 4, 6, 8}
FilledBuffers ==
    {[i \in 1..Len(quarters) |-> Dyadic(quarters[i], -2)] :
        quarters \in UNION {[1..n -> SampleQuarters] : n \in 0..MaxBuffer}}

\* ELVRL directories: three names that end in .ELV in some case and one
\* that does not, each level file missing, with a bad header or well-formed.
BatchNames ==
    { <<66>> \o DOT_ELV,                          \* "B.ELV"
      <<67>> \o DOT_ELV,                          \* "C.ELV"
      <<97, 46, 101, 108, 118>> }                 \* "a.elv"
BatchFiles ==
    { None,
      Some(<<69, 76, 86, 88, 1, 0, 0, 0>>),       \* b'ELVX': wrong magic
      Some(ELVD \o <<1, 0, 0, 0>> \o <<49>> \o RHYTH_WAV),
      Some(ELVD \o <<2, 0, 0, 0>> \o <<57>> \o RHYTH_WAV \o <<0>> \o NOSOUND_WAV) }
OtherEntries ==
    { {}, {[name |-> <<67>> \o DOT_ELV \o <<46, 66, 65, 75>>,    \* "C.ELV.BAK"
           file |-> Some(ELVD \o <<1, 0, 0, 0>>)]} }
ElvrlDirs ==
    {None} \cup
    {Some({[name |-> n, file |-> f[n]] : n \in names} \cup other) :
        names \in SUBSET BatchNames, f \in [BatchNames -> BatchFiles],
        other \in OtherEntries}

(***************************************************************************)
(* Specifications.  Init draws the inputs (the blob, the filename, the     *)
(* files on disk); the actions apply the operations to them.               *)
(***************************************************************************)
\* The renderer before generate_level_music is called.
MusicIdle ==
    /\ extraction_data = None /\ level_filename = <<>>
    /\ duration_seconds = Zero
    /\ rloops_dir = {} /\ pc = "idle"
    /\ audio_clips = <<>> /\ target_samples = 0 /\ music_buffer = <<>>
    /\ current_pos = 0 /\ clip_index = 0 /\ music_result = None
    /\ audio_16bit = None

\* Both tools before a batch run: the result lists of the constructors.
BatchIdle ==
    /\ elvrl_dir = None
    /\ extracted_files = <<>> /\ extract_all_result = None
    /\ reports = <<>> /\ generate_all_result = None
    /\ sequence_data = None

NoCheck == [exists |-> FALSE, alternative |-> None]
NoReportCheck == [exists |-> FALSE, alternative |-> None, metadata |-> ZeroMetadata]

\* The constructors: __init__ of both classes over the same rloops files.
Construct(files) ==
    /\ available_audio_files = _cache_available_audio_files({f.name : f \in files})
    /\ audio_file_info = _cache_audio_file_info(files)

\* --- _extract_audio_sequence_from_data on any blob ---
InitExtract ==
    /\ data \in Blobs
    /\ audio_sequence = <<>>
    /\ classify_filename = <<>> /\ file_type = "unknown"
    /\ Construct({})
    /\ check_filename = <<>> /\ check_result = NoCheck
    /\ report_check_result = NoReportCheck
    /\ elv_file = None /\ file_info = DefaultFileInfo /\ report = DefaultReport
    /\ returned = {}
    /\ BatchIdle
    /\ MusicIdle

ExtractAudioSequence ==
    /\ "_extract_audio_sequence_from_data" \notin returned
    /\ audio_sequence' = _extract_audio_sequence_from_data(data)
    /\ returned' = returned \cup {"_extract_audio_sequence_from_data"}
    /\ UNCHANGED <<data, classify_filename, file_type, available_audio_files,
                   check_filename, check_result, audio_file_info,
                   report_check_result, elv_file, file_info, report>>
    /\ UNCHANGED musicVars
    /\ UNCHANGED batchVars

NextExtract == ExtractAudioSequence
SpecExtract == InitExtract /\ [][NextExtract]_vars

\* --- _classify_audio_file on any filename ---
InitClassify ==
    /\ data = <<>> /\ audio_sequence = <<>>
    /\ classify_filename \in Filenames
    /\ file_type = "unknown"
    /\ Construct({})
    /\ check_filename = <<>> /\ check_result = NoCheck
    /\ report_check_result = NoReportCheck
    /\ elv_file = None /\ file_info = DefaultFileInfo /\ report = DefaultReport
    /\ returned = {}
    /\ BatchIdle
    /\ MusicIdle

ClassifyAudioFile ==
    /\ "_classify_audio_file" \notin returned
    /\ file_type' = _classify_audio_file(classify_filename)
    /\ returned' = returned \cup {"_classify_audio_file"}
    /\ UNCHANGED <<data, audio_sequence, classify_filename, available_audio_files,
                   check_filename, check_result, audio_file_info,
                   report_check_result, elv_file, file_info, report>>
    /\ UNCHANGED musicVars
    /\ UNCHANGED batchVars

NextClassify == ClassifyAudioFile
SpecClassify == InitClassify /\ [][NextClassify]_vars

\* --- _check_audio_file_exists on any filename and inventory ---
InitCheck ==
    /\ data = <<>> /\ audio_sequence = <<>>
    /\ classify_filename = <<>> /\ file_type = "unknown"
    /\ \E files \in SUBSET RloopsDir : Construct(files)
    /\ check_filename \in Filenames
    /\ check_result = NoCheck
    /\ report_check_result = NoReportCheck
    /\ elv_file = None /\ file_info = DefaultFileInfo /\ report = DefaultReport
    /\ returned = {}
    /\ BatchIdle
    /\ MusicIdle

CheckAudioFileExists ==
    /\ "_check_audio_file_exists" \notin returned
    /\ check_result' = _check_audio_file_exists(check_filename, available_audio_files)
    /\ returned' = returned \cup {"_check_audio_file_exists"}
    /\ UNCHANGED <<data, audio_sequence, classify_filename, file_type,
                   available_audio_files, check_filename, audio_file_info,
                   report_check_result, elv_file, file_info, report>>
    /\ UNCHANGED musicVars
    /\ UNCHANGED batchVars

ReportCheckAudioFileExists ==
    /\ "Report_check_audio_file_exists" \notin returned
    /\ report_check_result' =
           Report_check_audio_file_exists(check_filename, audio_file_info)
    /\ returned' = returned \cup {"Report_check_audio_file_exists"}
    /\ UNCHANGED <<data, audio_sequence, classify_filename, file_type,
                   available_audio_files, check_filename, check_result,
                   audio_file_info, elv_file, file_info, report>>
    /\ UNCHANGED musicVars
    /\ UNCHANGED batchVars

NextCheck == CheckAudioFileExists \/ ReportCheckAudioFileExists
SpecCheck == InitCheck /\ [][NextCheck]_vars

\* --- parse_elv_file and generate_elv_report on the level file ---
Init ==
    /\ data = <<>> /\ audio_sequence = <<>>
    /\ classify_filename = <<>> /\ file_type = "unknown"
    /\ \E files \in Installations : Construct(files)
    /\ check_filename = <<>> /\ check_result = NoCheck
    /\ report_check_result = NoReportCheck
    /\ elv_file \in LevelFiles
    /\ file_info = DefaultFileInfo /\ report = DefaultReport
    /\ returned = {}
    /\ BatchIdle
    /\ MusicIdle

\* Mutant: the names found in the file are added to the inventory.
ParseElvFile_caches_names ==
    /\ "parse_elv_file" \notin returned
    /\ file_info' = parse_elv_file(elv_file, available_audio_files)
    /\ available_audio_files' =
           available_audio_files \cup
           {file_info'.audio_files[i].filename : i \in 1..Len(file_info'.audio_files)}
    /\ returned' = returned \cup {"parse_elv_file"}
    /\ UNCHANGED <<data, audio_sequence, classify_filename, file_type,
                   check_filename, check_result,
                   audio_file_info, report_check_result, elv_file, report>>
    /\ UNCHANGED musicVars
    /\ UNCHANGED batchVars

ParseElvFile ==
    /\ "parse_elv_file" \notin returned
    /\ file_info' = parse_elv_file(elv_file, available_audio_files)
    /\ returned' = returned \cup {"parse_elv_file"}
    /\ UNCHANGED <<data, audio_sequence, classify_filename, file_type,
                   available_audio_files, check_filename, check_result,
                   audio_file_info, report_check_result, elv_file, report>>
    /\ UNCHANGED musicVars
    /\ UNCHANGED batchVars

GenerateElvReport ==
    /\ "generate_elv_report" \notin returned
    /\ report' = generate_elv_report(elv_file, audio_file_info)
    /\ returned' = returned \cup {"generate_elv_report"}
    /\ UNCHANGED <<data, audio_sequence, classify_filename, file_type,
                   available_audio_files, check_filename, check_result,
                   audio_file_info, report_check_result, elv_file, file_info>>
    /\ UNCHANGED musicVars
    /\ UNCHANGED batchVars

Next == ParseElvFile \/ GenerateElvReport
Spec == Init /\ [][Next]_vars

\* --- parse_elv_file and generate_elv_report on titled files ---
InitTitle ==
    /\ data = <<>> /\ audio_sequence = <<>>
    /\ classify_filename = <<>> /\ file_type = "unknown"
    /\ Construct({})
    /\ check_filename = <<>> /\ check_result = NoCheck
    /\ report_check_result = NoReportCheck
    /\ elv_file \in TitledFiles
    /\ file_info = DefaultFileInfo /\ report = DefaultReport
    /\ returned = {}
    /\ BatchIdle
    /\ MusicIdle
SpecTitle == InitTitle /\ [][Next]_vars

\* --- parse_elv_file and generate_elv_report on files with any version ---
InitVersion ==
    /\ data = <<>> /\ audio_sequence = <<>>
    /\ classify_filename = <<>> /\ file_type = "unknown"
    /\ Construct({})
    /\ check_filename = <<>> /\ check_result = NoCheck
    /\ report_check_result = NoReportCheck
    /\ elv_file \in VersionedFiles
    /\ file_info = DefaultFileInfo /\ report = DefaultReport
    /\ returned = {}
    /\ BatchIdle
    /\ MusicIdle
SpecVersion == InitVersion /\ [][Next]_vars

\* --- extract_all_files and generate_all_reports over an ELVRL directory ---
InitBatch ==
    /\ data = <<>> /\ audio_sequence = <<>>
    /\ classify_filename = <<>> /\ file_type = "unknown"
    /\ Construct(RloopsDir)
    /\ check_filename = <<>> /\ check_result = NoCheck
    /\ report_check_result = NoReportCheck
    /\ elv_file = None /\ file_info = DefaultFileInfo /\ report = DefaultReport
    /\ returned = {}
    /\ MusicIdle
    /\ elvrl_dir \in ElvrlDirs
    /\ extracted_files = <<>> /\ extract_all_result = None
    /\ reports = <<>> /\ generate_all_result = None
    /\ sequence_data = None

ExtractAllFiles ==
    /\ "extract_all_files" \notin returned
    /\ LET run == extract_all_files(elvrl_dir, available_audio_files, extracted_files)
       IN  /\ extract_all_result' = Some(run.result)
           /\ extracted_files' = run.extracted_files
    /\ returned' = returned \cup {"extract_all_files"}
    /\ UNCHANGED <<data, audio_sequence, classify_filename, file_type,
                   available_audio_files, check_filename, check_result,
                   audio_file_info, report_check_result, elv_file, file_info,
                   report, elvrl_dir, reports, generate_all_result,
                   sequence_data>>
    /\ UNCHANGED musicVars

GenerateAllReports ==
    /\ "generate_all_reports" \notin returned
    /\ LET run == generate_all_reports(elvrl_dir, audio_file_info, reports)
       IN  /\ generate_all_result' = Some(run.result)
           /\ reports' = run.reports
    /\ returned' = returned \cup {"generate_all_reports"}
    /\ UNCHANGED <<data, audio_sequence, classify_filename, file_type,
                   available_audio_files, check_filename, check_result,
                   audio_file_info, report_check_result, elv_file, file_info,
                   report, elvrl_dir, extracted_files, extract_all_result,
                   sequence_data>>
    /\ UNCHANGED musicVars

NextBatch == ExtractAllFiles \/ GenerateAllReports
SpecBatch == InitBatch /\ [][NextBatch]_vars

\* --- a session: the operations of both tools on one pair of objects, each
\* called once, in any order ---
InitSession ==
    /\ data = <<>> /\ audio_sequence = <<>>
    /\ classify_filename = <<>> /\ file_type = "unknown"
    /\ \E files \in SessionInstallations : Construct(files)
    /\ check_filename \in SessionNames
    /\ check_result = NoCheck
    /\ report_check_result = NoReportCheck
    /\ elv_file \in SessionFiles
    /\ file_info = DefaultFileInfo /\ report = DefaultReport
    /\ returned = {}
    /\ MusicIdle
    /\ elvrl_dir \in SessionDirs
    /\ extracted_files = <<>> /\ extract_all_result = None
    /\ reports = <<>> /\ generate_all_result = None
    /\ sequence_data = None

SaveSequenceData ==
    /\ "save_sequence_data" \notin returned
    /\ sequence_data' = Some(save_sequence_data(extracted_files))
    /\ returned' = returned \cup {"save_sequence_data"}
    /\ UNCHANGED <<data, audio_sequence, classify_filename, file_type,
                   available_audio_files, check_filename, check_result,
                   audio_file_info, report_check_result, elv_file, file_info,
                   report, elvrl_dir, extracted_files, extract_all_result,
                   reports, generate_all_result>>
    /\ UNCHANGED musicVars

NextSession ==
    \/ CheckAudioFileExists \/ ReportCheckAudioFileExists
    \/ ParseElvFile \/ GenerateElvReport
    \/ ExtractAllFiles \/ GenerateAllReports
    \/ SaveSequenceData
SpecSession == InitSession /\ [][NextSession]_vars

\* --- generate_level_music, step by step ---
InitMusic ==
    /\ data = <<>> /\ audio_sequence = <<>>
    /\ classify_filename = <<>> /\ file_type = "unknown"
    /\ Construct({})
    /\ check_filename = <<>> /\ check_result = NoCheck
    /\ report_check_result = NoReportCheck
    /\ elv_file = None /\ file_info = DefaultFileInfo /\ report = DefaultReport
    /\ returned = {}
    /\ BatchIdle
    /\ extraction_data \in ExtractionData
    /\ level_filename \in LevelFilenames
    /\ duration_seconds \in Durations
    /\ rloops_dir = RloopsWavs
    /\ pc = "start"
    /\ audio_clips = <<>> /\ target_samples = 0 /\ music_buffer = <<>>
    /\ current_pos = 0 /\ clip_index = 0 /\ music_result = None
    /\ audio_16bit = None

extractionVars ==
    <<data, audio_sequence, classify_filename, file_type, available_audio_files,
      check_filename, check_result, audio_file_info, report_check_result,
      elv_file, file_info, report, returned,
      elvrl_dir, extracted_files, extract_all_result, reports,
      generate_all_result, sequence_data>>
musicInputs == <<extraction_data, level_filename, duration_seconds, rloops_dir>>

\* Lines 124-168: the level is looked up and its clips are loaded; the
\* failure result is returned when there is no level, no entry or no clip.
ComposeClips ==
    /\ pc = "start"
    /\ LET level_info == get_level_info(extraction_data, level_filename)
           clips == LoadClips(SortBySequencePosition(level_info[1].audio_files),
                              rloops_dir)
       IN  IF level_info = None
           THEN pc' = "done" /\ audio_clips' = audio_clips
           ELSE IF level_info[1].audio_count = 0
           THEN pc' = "done" /\ audio_clips' = audio_clips
           ELSE IF clips = <<>>
           THEN pc' = "done" /\ audio_clips' = audio_clips
           ELSE pc' = "allocate" /\ audio_clips' = clips
    /\ music_result' = None
    /\ UNCHANGED <<target_samples, music_buffer, current_pos, clip_index>>
    /\ UNCHANGED musicInputs
    /\ UNCHANGED audio_16bit
    /\ UNCHANGED extractionVars

\* Lines 174-178: the target buffer and the write cursor.
CreateBuffer ==
    /\ pc = "allocate"
    /\ target_samples' = TargetSamples(duration_seconds)
    /\ music_buffer' = Zeros(TargetSamples(duration_seconds))
    /\ current_pos' = 0
    /\ pc' = "while"
    /\ UNCHANGED <<audio_clips, clip_index, music_result>>
    /\ UNCHANGED musicInputs
    /\ UNCHANGED audio_16bit
    /\ UNCHANGED extractionVars

\* Line 181: while current_pos < target_samples; a pass starts at the
\* first clip.
WhileTest ==
    /\ pc = "while"
    /\ IF current_pos < target_samples
       THEN pc' = "for" /\ clip_index' = 1
       ELSE pc' = "normalize" /\ clip_index' = clip_index
    /\ UNCHANGED <<audio_clips, target_samples, music_buffer, current_pos,
                   music_result>>
    /\ UNCHANGED musicInputs
    /\ UNCHANGED audio_16bit
    /\ UNCHANGED extractionVars

\* Lines 185-200: one turn of the for loop over audio_clips.
ForClip ==
    /\ pc = "for"
    /\ IF clip_index > Len(audio_clips) \/ current_pos >= target_samples
       THEN /\ pc' = "while" /\ clip_index' = 0
            /\ UNCHANGED <<music_buffer, current_pos>>
       ELSE LET audio_data == audio_clips[clip_index].audio_data
                remaining_samples == target_samples - current_pos
                samples_to_copy == SamplesToCopy(audio_data, remaining_samples)
            IN  /\ music_buffer' =
                       CopyInto(music_buffer, current_pos, audio_data, samples_to_copy)
                /\ current_pos' = current_pos + samples_to_copy
                /\ IF samples_to_copy < Len(audio_data)
                   THEN pc' = "while" /\ clip_index' = 0
                   ELSE pc' = "for" /\ clip_index' = clip_index + 1
    /\ UNCHANGED <<audio_clips, target_samples, music_result>>
    /\ UNCHANGED musicInputs
    /\ UNCHANGED audio_16bit
    /\ UNCHANGED extractionVars

\* Lines 203-210: peak normalization and the return of the buffer; np.max
\* raises ValueError on an empty buffer.
Normalize ==
    /\ pc = "normalize"
    /\ IF music_buffer = <<>>
       THEN pc' = "raised" /\ music_result' = None
                           /\ music_buffer' = music_buffer
       ELSE /\ music_buffer' = Normalized(music_buffer)
            /\ music_result' = Some(Normalized(music_buffer))
            /\ pc' = "done"
    /\ UNCHANGED <<audio_clips, target_samples, current_pos, clip_index>>
    /\ UNCHANGED musicInputs
    /\ UNCHANGED audio_16bit
    /\ UNCHANGED extractionVars

NextMusic == ComposeClips \/ CreateBuffer \/ WhileTest \/ ForClip \/ Normalize
SpecMusic == InitMusic /\ [][NextMusic]_vars

\* generate_level_music runs on: the fill loop takes the step it can take.
SpecMusicLive == SpecMusic /\ WF_vars(WhileTest) /\ WF_vars(ForClip)

\* --- generate_level_music on a level of one clip, the clip's file having
\* any of the source rates ---
InitLoad ==
    /\ data = <<>> /\ audio_sequence = <<>>
    /\ classify_filename = <<>> /\ file_type = "unknown"
    /\ Construct({})
    /\ check_filename = <<>> /\ check_result = NoCheck
    /\ report_check_result = NoReportCheck
    /\ elv_file = None /\ file_info = DefaultFileInfo /\ report = DefaultReport
    /\ returned = {}
    /\ BatchIdle
    /\ extraction_data = Some(<<LevelRecord(A_ELV, << <<49>> \o RHYTH_WAV >>)>>)
    /\ level_filename = Lower(A_ELV)
    /\ duration_seconds \in Durations
    /\ \E f \in ResampleWavs : rloops_dir = {f}
    /\ pc = "start"
    /\ audio_clips = <<>> /\ target_samples = 0 /\ music_buffer = <<>>
    /\ current_pos = 0 /\ clip_index = 0 /\ music_result = None
    /\ audio_16bit = None
SpecLoad == InitLoad /\ [][NextMusic]_vars

\* --- generate_level_music on a clip of extreme sample values, and
\* save_music on the buffer it returns, as main() chains them ---
InitSave ==
    /\ data = <<>> /\ audio_sequence = <<>>
    /\ classify_filename = <<>> /\ file_type = "unknown"
    /\ Construct({})
    /\ check_filename = <<>> /\ check_result = NoCheck
    /\ report_check_result = NoReportCheck
    /\ elv_file = None /\ file_info = DefaultFileInfo /\ report = DefaultReport
    /\ returned = {}
    /\ BatchIdle
    /\ extraction_data = Some(<<LevelRecord(A_ELV, << <<49>> \o RHYTH_WAV >>)>>)
    /\ level_filename = A_ELV
    /\ duration_seconds \in Durations
    /\ \E f \in ExtremeWavs : rloops_dir = {f}
    /\ pc = "start"
    /\ audio_clips = <<>> /\ target_samples = 0 /\ music_buffer = <<>>
    /\ current_pos = 0 /\ clip_index = 0 /\ music_result = None
    /\ audio_16bit = None

\* Lines 214-223: the buffer returned is written as 16-bit samples.
SaveMusic ==
    /\ pc = "done" /\ music_result # None
    /\ audio_16bit = None
    /\ audio_16bit' = Some(save_music(music_result[1]))
    /\ UNCHANGED <<pc, audio_clips, target_samples, music_buffer, current_pos,
                   clip_index, music_result>>
    /\ UNCHANGED musicInputs
    /\ UNCHANGED extractionVars

NextSave == NextMusic \/ SaveMusic
SpecSave == InitSave /\ [][NextSave]_vars

\* --- the normalization of generate_level_music (lines 202-210) on any
\* filled buffer: the generator stands at line 203, one clip of the length
\* of the buffer having been copied into it ---
InitNormalize ==
    /\ data = <<>> /\ audio_sequence = <<>>
    /\ classify_filename = <<>> /\ file_type = "unknown"
    /\ Construct({})
    /\ check_filename = <<>> /\ check_result = NoCheck
    /\ report_check_result = NoReportCheck
    /\ elv_file = None /\ file_info = DefaultFileInfo /\ report = DefaultReport
    /\ returned = {}
    /\ BatchIdle
    /\ extraction_data = Some(<<LevelRecord(A_ELV, << <<49>> \o RHYTH_WAV >>)>>)
    /\ level_filename = A_ELV
    /\ rloops_dir = {}
    /\ music_buffer \in FilledBuffers
    /\ duration_seconds = DurationOfSamples(Len(music_buffer))
    /\ audio_clips = <<[filename |-> <<49>> \o RHYTH_WAV,
                        audio_data |-> music_buffer, seq_pos |-> 0]>>
    /\ target_samples = Len(music_buffer)
    /\ current_pos = Len(music_buffer)
    /\ clip_index = 0
    /\ pc = "normalize"
    /\ music_result = None
    /\ audio_16bit = None

NextNormalize == Normalize
SpecNormalize == InitNormalize /\ [][NextNormalize]_vars


(***************************************************************************)
(* Properties of _extract_audio_sequence_from_data (SpecExtract).          *)
(***************************************************************************)
ExtractReturned == "_extract_audio_sequence_from_data" \in returned

\* Every match of every pattern clause in the decoded text of bytes.
MatchesOf(bytes) == AllMatches(DecodeAsciiIgnore(bytes), 1)
\* The offsets at which filename is matched, among the matches ms.
MatchPositions(ms, filename) ==
    {ms[i].position : i \in {j \in 1..Len(ms) : ms[j].filename = filename}}

\* C1: the binary_offset values of the extracted sequence are strictly
\* increasing in list order: no two entries share an offset and no entry
\* has a smaller offset than an earlier one.
C1_OffsetsStrictlyIncreasing ==
    ExtractReturned =>
        \A i, j \in 1..Len(audio_sequence) :
            i < j => audio_sequence[i].position < audio_sequence[j].position

\* C1 witness: a blob whose matches come out of the pattern loop out of
\* offset order (a later clause matches earlier in the blob), extracted to
\* at least two entries.
C1_Witness ==
    /\ ExtractReturned
    /\ Len(audio_sequence) >= 2
    /\ LET ms == MatchesOf(data)
       IN  \E i, j \in 1..Len(ms) : i < j /\ ms[i].position > ms[j].position

\* C2: no filename appears twice in the extracted sequence, every matched
\* filename is retained once, and the offset recorded for it is the minimum
\* offset over all matches of that filename by any pattern clause.
C2_FirstOccurrenceKept ==
    ExtractReturned =>
        LET ms == MatchesOf(data)
        IN  /\ \A i, j \in 1..Len(audio_sequence) :
                   i # j => audio_sequence[i].filename # audio_sequence[j].filename
            /\ \A i \in 1..Len(audio_sequence) :
                   LET at == MatchPositions(ms, audio_sequence[i].filename)
                   IN  /\ audio_sequence[i].position \in at
                       /\ \A q \in at : audio_sequence[i].position <= q
            /\ \A k \in 1..Len(ms) :
                   \E i \in 1..Len(audio_sequence) :
                       audio_sequence[i].filename = ms[k].filename

\* C2 witness: a filename occurs at two different offsets of the blob and
\* the extraction has returned it.
C2_Witness ==
    /\ ExtractReturned
    /\ LET ms == MatchesOf(data)
       IN  \E i \in 1..Len(audio_sequence) :
               Cardinality(MatchPositions(ms, audio_sequence[i].filename)) >= 2

\* C4 (as claimed): the offset recorded for each retained filename is the
\* index in the original blob of the first byte of that token:
\* blob[offset : offset + len(filename)].upper() = filename.
C4_OffsetIndexesOriginalBlob ==
    ExtractReturned =>
        \A i \in 1..Len(audio_sequence) :
            LET e == audio_sequence[i]
            IN  /\ e.position + Len(e.filename) <= Len(data)
                /\ Upper(Slice(data, e.position, e.position + Len(e.filename)))
                       = e.filename

\* C5 (as claimed): every reported filename is a run of contiguous bytes of
\* the original blob; a token interrupted by a byte >= 0x80 is not reported.
C5_FilenameIsContiguousInBlob ==
    ExtractReturned =>
        \A i \in 1..Len(audio_sequence) :
            LET name == audio_sequence[i].filename
            IN  \E p \in 0..(Len(data) - Len(name)) :
                    Upper(Slice(data, p, p + Len(name))) = name

(***************************************************************************)
(* Properties of _classify_audio_file (SpecClassify).                      *)
(***************************************************************************)
ClassifyReturned == "_classify_audio_file" \in returned

Categories ==
    {"silence", "system", "special", "letter_rhythm", "numbered_rhythm", "unknown"}

\* The strings a pattern ending in $ accepts for s: s itself, and s without
\* the newline that ends it.
DollarBodies(s) ==
    {s} \cup (IF Len(s) >= 1 /\ s[Len(s)] = 10 THEN {SubSeq(s, 1, Len(s) - 1)} ELSE {})

\* s is one letter A..Z followed by RHYTH.WAV
IsLetterRhythmName(s) ==
    Len(s) = 1 + Len(RHYTH_WAV) /\ IsUpperAZ(s[1]) /\ Tail(s) = RHYTH_WAV

\* s is one or more digits followed by RHYTH.WAV
IsNumberedRhythmName(s) ==
    /\ Len(s) > Len(RHYTH_WAV)
    /\ SubSeq(s, Len(s) - Len(RHYTH_WAV) + 1, Len(s)) = RHYTH_WAV
    /\ \A i \in 1..(Len(s) - Len(RHYTH_WAV)) : IsDigit(s[i])

\* The category of the first rule of the priority table that matches.
PriorityCategory(name) ==
    LET u == Upper(name)
    IN  IF u = NOSOUND_WAV THEN "silence"
        ELSE IF u # <<>> /\ u[1] = 33 THEN "system"
        ELSE IF u # <<>> /\ u[1] = 88 THEN "special"
        ELSE IF \E b \in DollarBodies(u) : IsLetterRhythmName(b) THEN "letter_rhythm"
        ELSE IF \E b \in DollarBodies(u) : IsNumberedRhythmName(b) THEN "numbered_rhythm"
        ELSE "unknown"

\* C6: _classify_audio_file returns exactly one category, the one of the
\* first matching rule in the order silence, system, special,
\* letter_rhythm, numbered_rhythm, unknown, and the lower- and upper-case
\* spellings of the name get that same category.
C6_ClassifyFirstMatchingRule ==
    ClassifyReturned =>
        /\ file_type \in Categories
        /\ file_type = PriorityCategory(classify_filename)
        /\ _classify_audio_file(Lower(classify_filename)) = file_type
        /\ _classify_audio_file(Upper(classify_filename)) = file_type

\* C6 witness: a lower-case name that two rules match (starts with X and
\* has the letter shape) has been classified by the earlier rule.
C6_Witness ==
    /\ ClassifyReturned
    /\ classify_filename = <<120>> \o Lower(RHYTH_WAV)
    /\ IsLetterRhythmName(Upper(classify_filename))
    /\ file_type = "special"

(***************************************************************************)
(* Properties of _check_audio_file_exists (SpecCheck).                     *)
(***************************************************************************)
CheckReturned == "_check_audio_file_exists" \in returned
ReportCheckReturned == "Report_check_audio_file_exists" \in returned

\* filename[n:].upper()
UpperFrom(filename, n) == Upper(Slice(filename, n, Len(filename)))

\* The resolution order of the claim, for a set of inventory keys.
FallbackApplies(filename, keys) ==
    /\ Upper(filename) \notin keys
    /\ Len(filename) > 4 /\ IsDigit(filename[1])
    /\ UpperFrom(filename, 1) \in keys

ResolvedName(filename, keys) ==
    IF Upper(filename) \in keys THEN Some(Upper(filename))
    ELSE IF FallbackApplies(filename, keys) THEN Some(UpperFrom(filename, 1))
    ELSE None

\* C7: _check_audio_file_exists finds the upper-cased name if it is in the
\* inventory; else, only for a name longer than 4 that starts with a digit,
\* the name without exactly its first character; else nothing, with no
\* alias and zero metadata.  An exact match wins over the fallback, and a
\* name that needs two leading digits stripped is not found.
C7_ResolutionOrder ==
    /\ CheckReturned =>
          /\ check_result.alternative = ResolvedName(check_filename, available_audio_files)
          /\ check_result.exists = (check_result.alternative # None)
          /\ (Upper(check_filename) \notin available_audio_files
               /\ UpperFrom(check_filename, 1) \notin available_audio_files)
              => ~check_result.exists
    /\ ReportCheckReturned =>
          /\ report_check_result.alternative
                = ResolvedName(check_filename, DOMAIN audio_file_info)
          /\ report_check_result.exists = (report_check_result.alternative # None)
          /\ report_check_result.metadata =
                IF report_check_result.exists
                THEN audio_file_info[report_check_result.alternative[1]]
                ELSE ZeroMetadata

\* C7 witness: a name with two leading digits whose remainder after both
\* is in the inventory, while the name and the name without one digit are
\* not, has been looked up by both classes.
C7_Witness ==
    /\ CheckReturned /\ ReportCheckReturned
    /\ Len(check_filename) > 4
    /\ IsDigit(check_filename[1]) /\ IsDigit(check_filename[2])
    /\ UpperFrom(check_filename, 2) \in available_audio_files
    /\ UpperFrom(check_filename, 1) \notin available_audio_files
    /\ Upper(check_filename) \notin available_audio_files
    /\ ~check_result.exists

(***************************************************************************)
(* Properties of parse_elv_file and generate_elv_report (Spec).            *)
(***************************************************************************)
ParseReturned == "parse_elv_file" \in returned
ReportReturned == "generate_elv_report" \in returned

\* entries has positions 0..n-1 in list order, and position k is held by
\* the entry with the k-th smallest first-occurrence offset in the file.
DensePositions(entries) ==
    LET ms == MatchesOf(elv_file[1])
    IN  \A i \in 1..Len(entries) :
            LET at == MatchPositions(ms, entries[i].filename)
            IN  /\ entries[i].sequence_position = i - 1
                /\ entries[i].binary_offset \in at
                /\ \A q \in at : entries[i].binary_offset <= q
                /\ Cardinality({j \in 1..Len(entries) :
                       entries[j].binary_offset < entries[i].binary_offset}) = i - 1

\* C3: in every result of parse_elv_file (and generate_elv_report) the
\* sequence_position values are exactly 0..n-1 in list order, n =
\* audio_count = len(audio_files), and position k belongs to the entry with
\* the k-th smallest first-occurrence offset.
C3_DenseSequencePositions ==
    /\ ParseReturned =>
          /\ file_info.audio_count = Len(file_info.audio_files)
          /\ DensePositions(file_info.audio_files)
    /\ ReportReturned =>
          /\ report.total_audio_files = Len(report.audio_sequence)
          /\ DensePositions(report.audio_sequence)

\* C3 witness: a file whose matches come out of the pattern loop out of
\* offset order has been parsed to two entries by both classes.
C3_Witness ==
    /\ ParseReturned /\ ReportReturned
    /\ file_info.audio_count = 2
    /\ Len(report.audio_sequence) = 2
    /\ LET ms == MatchesOf(elv_file[1])
       IN  \E i, j \in 1..Len(ms) : i < j /\ ms[i].position > ms[j].position

\* The entry was resolved through the strip-one-leading-digit fallback.
ViaFallback(a, keys) ==
    /\ a.filename \notin keys
    /\ IsDigit(a.filename[1])
    /\ Tail(a.filename) \in keys

AliasRule(entries, keys) ==
    \A i \in 1..Len(entries) :
        LET a == entries[i]
        IN  /\ (a.alternative_found # None) <=> ViaFallback(a, keys)
            /\ a.alternative_found # None =>
                   /\ a.exists_in_rloops
                   /\ a.alternative_found[1] # a.filename
                   /\ a.alternative_found[1] = Tail(a.filename)
            /\ a.filename \in keys => a.exists_in_rloops /\ a.alternative_found = None
            /\ ~a.exists_in_rloops => a.alternative_found = None

\* C8: alternative_found is non-null iff the reference was resolved through
\* the strip-one-leading-digit fallback; then exists_in_rloops is true and
\* the alias is the filename without its first character; for exact
\* matches and for unresolved references it is null.
C8_AliasOnlyForFallback ==
    /\ ParseReturned => AliasRule(file_info.audio_files, available_audio_files)
    /\ ReportReturned => AliasRule(report.audio_sequence, DOMAIN audio_file_info)

\* C8 witness: both classes have produced an entry resolved through the
\* fallback and the inventory also resolves some entry exactly.
C8_Witness ==
    /\ ParseReturned /\ ReportReturned
    /\ \E i \in 1..Len(file_info.audio_files) :
           file_info.audio_files[i].alternative_found # None
    /\ \E i \in 1..Len(report.audio_sequence) :
           report.audio_sequence[i].alternative_found # None
    /\ \E i \in 1..Len(file_info.audio_files) :
           file_info.audio_files[i].filename \in available_audio_files

BadHeader ==
    /\ elv_file # None
    /\ (Len(elv_file[1]) < 8 \/ SubSeq(elv_file[1], 1, 4) # ELVD)

\* C9: for a file shorter than 8 bytes or not starting with 'ELVD',
\* parse_elv_file returns parse_success = false, a non-null error message
\* (the bad-header marker), no audio files, audio_count = 0, elvd_version =
\* 0 and no level title.
C9_BadHeaderResult ==
    (ParseReturned /\ BadHeader) =>
        /\ file_info.parse_success = FALSE
        /\ file_info.error_message = Some("Invalid ELVD header")
        /\ file_info.audio_files = <<>>
        /\ file_info.audio_count = 0
        /\ file_info.elvd_version = 0
        /\ file_info.level_title = None

\* C9 witness: a file of fewer than 8 bytes that starts with 'ELVD' has
\* been parsed.
C9_Witness ==
    /\ ParseReturned /\ BadHeader
    /\ Len(elv_file[1]) < 8 /\ Len(elv_file[1]) >= 6
    /\ SubSeq(elv_file[1], 1, 4) = ELVD

\* The concatenation S of the clips of the clip list.
RECURSIVE ConcatClips(_)
ConcatClips(clips) ==
    IF clips = <<>> THEN <<>>
    ELSE Head(clips).audio_data \o ConcatClips(Tail(clips))

\* C10: when the fill loop has ended for a clip list whose concatenation S
\* has length L > 0, the buffer has exactly
\* N = int(duration_seconds * target_sample_rate) samples and, before
\* normalization, buffer[i] = S[i mod L] for every 0 <= i < N: the clips in
\* list order, the list reused cyclically, the last copy cut to the space
\* that is left; the buffer that is returned has N samples.  Clips A of
\* length 2 and B of length 1 fill a target of 5 with A, B, A.
C10_CyclicFill ==
    LET S == ConcatClips(audio_clips)
        L == Len(S)
        N == TargetSamples(duration_seconds)
    IN  /\ (pc = "normalize" /\ L > 0) =>
               /\ Len(music_buffer) = N
               /\ \A i \in 0..(N - 1) : music_buffer[i + 1] = S[(i % L) + 1]
        /\ (pc = "done" /\ music_result # None /\ L > 0) =>
               Len(music_result[1]) = N
\* Clips A (2 samples) and B (1 sample), 4 samples to fill: A, B and the
\* first sample of A.
C10_Witness ==
    /\ pc = "normalize"
    /\ Len(audio_clips) = 2
    /\ target_samples = 4
    /\ LET A == audio_clips[1].audio_data
           B == audio_clips[2].audio_data
       IN  /\ Len(A) = 2 /\ Len(B) = 1 /\ A[1] # A[2]
           /\ music_buffer = A \o B \o <<A[1]>>
\* C10 as stated, its example included: clips A of length 2 and B of
\* length 1 fill a target of 5 with A, B, A, B and the first unit of A.
C10_ExampleAsStated ==
    (/\ pc = "normalize"
     /\ Len(audio_clips) = 2
     /\ Len(audio_clips[1].audio_data) = 2
     /\ Len(audio_clips[2].audio_data) = 1
     /\ target_samples = 5)
    => LET A == audio_clips[1].audio_data
           B == audio_clips[2].audio_data
       IN  music_buffer = A \o B \o A \o B \o <<A[1]>>

\* C11: whenever the clip list is not empty, whatever the lengths of the
\* clips (0 samples included) and the target length N >= 0, the fill loop
\* ends, and it ends with the write cursor equal to N.
C11_FillLoopTerminates ==
    (pc = "while" /\ audio_clips # <<>>)
        ~> (pc = "normalize" /\ current_pos = target_samples)

\* C12: the step that normalizes takes the peak absolute sample of the whole
\* buffer; if the peak is greater than 1.0 every sample is divided by the
\* peak and the new peak is exactly 1.0; if the peak is at most 1.0 (1.0 and
\* 0 included) the buffer is returned unchanged.
C12_PeakNormalization ==
    [][(pc = "normalize" /\ pc' = "done") =>
          /\ music_result' = Some(music_buffer')
          /\ Len(music_buffer') = Len(music_buffer)
          /\ IF music_buffer # <<>> /\ MagnitudeLess(One, MaxAmplitude(music_buffer))
             THEN /\ \A i \in 1..Len(music_buffer) :
                        music_buffer'[i] =
                            Quotient(music_buffer[i], MaxAmplitude(music_buffer))
                  /\ MaxAmplitude(music_buffer') = One
             ELSE music_buffer' = music_buffer]_vars
\* A buffer of peak 1.5 holding a sample 0.75 has been returned with peak
\* 1.0 and the sample 0.5.
C12_Witness ==
    /\ pc = "done" /\ music_result # None
    /\ LET before == audio_clips[1].audio_data
           after == music_result[1]
       IN  /\ MaxAmplitude(before) = Dyadic(3, -1)
           /\ MaxAmplitude(after) = One
           /\ \E i \in 1..Len(before) :
                  before[i] = Dyadic(3, -2) /\ after[i] = Dyadic(1, -1)

\* The level generate_level_music is called for, and whether one of its
\* entries gives a clip: it is not silence and its file loads.
CalledLevel == get_level_info(extraction_data, level_filename)
Usable(audio_info) ==
    /\ audio_info.file_type # "silence"
    /\ load_audio_file(audio_info.filename, rloops_dir) # None
NoClipRemains ==
    \/ CalledLevel = None
    \/ CalledLevel[1].audio_count = 0
    \/ \A i \in 1..Len(CalledLevel[1].audio_files) :
           ~Usable(CalledLevel[1].audio_files[i])

\* C13: if no clip remains once the silence entries and the entries whose
\* file does not load are left out (level not found, audio_count = 0, all
\* entries silence, all loads failed), generate_level_music returns the
\* failure result: it ends at once, no buffer is allocated or returned.
C13_NoClipNoBuffer ==
    (NoClipRemains /\ pc # "start") =>
        /\ pc = "done"
        /\ music_result = None
        /\ audio_clips = <<>>
        /\ music_buffer = <<>> /\ target_samples = 0
\* A level of two entries has been refused: a silence entry whose file is
\* in the directory and loads, and an entry whose file does not load.
C13_Witness ==
    /\ pc = "done" /\ music_result = None /\ music_buffer = <<>>
    /\ CalledLevel # None
    /\ LET audio_files == CalledLevel[1].audio_files
       IN  /\ Len(audio_files) = 2
           /\ \E i, j \in 1..2 :
                  /\ audio_files[i].file_type = "silence"
                  /\ load_audio_file(audio_files[i].filename, rloops_dir) # None
                  /\ audio_files[j].file_type # "silence"
                  /\ audio_files[j].exists_in_rloops
                  /\ load_audio_file(audio_files[j].filename, rloops_dir) = None

\* C14: for every level of the extraction data and every duration >= 0
\* (those with int(duration * rate) = 0 included) generate_level_music ends
\* by returning a buffer or the failure result, never in an exception that
\* is not caught.
C14_NoUncaughtException == pc # "raised"

\* The clips the entries of the called level give, in the order of the
\* entries.
ExpectedClips ==
    LET kept == SelectSeq(CalledLevel[1].audio_files, Usable)
    IN  [i \in 1..Len(kept) |->
            [filename |-> kept[i].filename,
             audio_data |-> load_audio_file(kept[i].filename, rloops_dir)[1],
             seq_pos |-> kept[i].sequence_position]]

\* C15: the clip list is exactly the subsequence, in ascending
\* sequence_position order, of the entries of the level that are not silence
\* and whose audio loads: a silence entry or a failed load removes that
\* entry only and leaves the order of the others as it is.
C15_ClipListIsUsableSubsequence ==
    (pc # "start" /\ CalledLevel # None) =>
        /\ audio_clips =
               (IF CalledLevel[1].audio_count = 0 THEN <<>> ELSE ExpectedClips)
        /\ \A i, j \in 1..Len(audio_clips) :
               i < j => audio_clips[i].seq_pos < audio_clips[j].seq_pos
\* A level whose first entry does not give a clip and whose second does:
\* the clip list is the second entry alone, with its sequence position 1,
\* and the buffer is filled with that clip.
C15_Witness ==
    /\ pc = "normalize" /\ target_samples >= 2
    /\ CalledLevel # None
    /\ Len(CalledLevel[1].audio_files) = 2
    /\ ~Usable(CalledLevel[1].audio_files[1])
    /\ CalledLevel[1].audio_files[1].file_type # "silence"
    /\ Len(audio_clips) = 1
    /\ audio_clips[1].seq_pos = 1
    /\ audio_clips[1].filename = CalledLevel[1].audio_files[2].filename
    /\ music_buffer[1] = audio_clips[1].audio_data[1]

\* The level files of the ELVRL directory and what a file is.
LevelNames ==
    IF elvrl_dir = None THEN {}
    ELSE {e.name : e \in {x \in elvrl_dir[1] : EndsWith(Upper(x.name), DOT_ELV)}}
IsMissingFile(name) == FileAt(elvrl_dir[1], name) = None
HasBadHeader(name) ==
    LET file == FileAt(elvrl_dir[1], name)
    IN  file # None /\ (Len(file[1]) < 8 \/ SubSeq(file[1], 1, 4) # ELVD)
\* The results of a batch, a list of [filename, ...], name every level
\* file once, in sorted order.
OnePerFileInOrder(results) ==
    /\ Len(results) = Cardinality(LevelNames)
    /\ {results[i].filename : i \in 1..Len(results)} = LevelNames
    /\ \A i, j \in 1..Len(results) :
           i < j => LexLess(results[i].filename, results[j].filename)

\* C16: in a batch run over a directory with at least one level file every
\* file gets exactly one result appended, in sorted path order, whatever
\* became of the files before it: a missing file and an invalid header are
\* recorded in the result of that file (parse_success false and an error
\* message; an error note in a report) and the files after it are processed.
C16_BatchRecordsEveryFile ==
    LevelNames # {} =>
        /\ "extract_all_files" \in returned =>
               /\ extract_all_result = Some(TRUE)
               /\ OnePerFileInOrder(extracted_files)
               /\ \A i \in 1..Len(extracted_files) :
                      LET name == extracted_files[i].filename
                          info == extracted_files[i].info
                      IN  IF IsMissingFile(name)
                          THEN /\ ~info.parse_success
                               /\ info.error_message = Some("File not found")
                          ELSE IF HasBadHeader(name)
                          THEN /\ ~info.parse_success
                               /\ info.error_message = Some("Invalid ELVD header")
                          ELSE info.parse_success /\ info.error_message = None
        /\ "generate_all_reports" \in returned =>
               /\ generate_all_result = Some(TRUE)
               /\ OnePerFileInOrder(reports)
               /\ \A i \in 1..Len(reports) :
                      LET name == reports[i].filename
                          notes == reports[i].report.analysis_notes
                      IN  IF IsMissingFile(name)
                          THEN notes = <<Note("File not found", 0)>>
                          ELSE IF HasBadHeader(name)
                          THEN notes = <<Note("Invalid ELVD header", 0)>>
                          ELSE reports[i].report.total_audio_files >= 1
\* Both batches have run over three level files: the first is missing, the
\* second has a bad header, the third is parsed.
C16_Witness ==
    /\ returned = {"extract_all_files", "generate_all_reports"}
    /\ Len(extracted_files) = 3 /\ Len(reports) = 3
    /\ IsMissingFile(extracted_files[1].filename)
    /\ HasBadHeader(extracted_files[2].filename)
    /\ extracted_files[3].info.parse_success
    /\ extracted_files[3].info.audio_count = 2
    /\ reports[3].report.total_audio_files = 2

\* C17: a reference that is not resolved is no failure of the file: for a
\* file with a valid header parse_elv_file returns parse_success = true and
\* no error message, however many of its references are not in the
\* inventory; every filename the scan finds is in audio_files once, and an
\* unresolved one has exists_in_rloops = false, its place in the sequence and
\* its offset.
C17_UnresolvedIsNotFailure ==
    (ParseReturned /\ elv_file # None /\ ~BadHeader) =>
        LET ms == MatchesOf(elv_file[1])
            found == {ms[k].filename : k \in 1..Len(ms)}
            entries == file_info.audio_files
        IN  /\ file_info.parse_success
            /\ file_info.error_message = None
            /\ \A f \in found :
                   Cardinality({i \in 1..Len(entries) : entries[i].filename = f}) = 1
            /\ \A i \in 1..Len(entries) :
                   ResolvedName(entries[i].filename, available_audio_files) = None =>
                       /\ entries[i].filename \in found
                       /\ ~entries[i].exists_in_rloops
                       /\ entries[i].sequence_position = i - 1
                       /\ entries[i].binary_offset \in
                              MatchPositions(ms, entries[i].filename)
\* A file with a valid header and two references, neither of them in the
\* inventory, has been parsed.
C17_Witness ==
    /\ ParseReturned /\ elv_file # None /\ ~BadHeader
    /\ file_info.parse_success
    /\ file_info.audio_count = 2
    /\ \A i \in 1..2 : ~file_info.audio_files[i].exists_in_rloops

\* The title the statement describes: of the NUL-delimited fragments of the
\* text after the header, the first one made of printable characters only,
\* longer than 10 characters and not ending in ".lbm", cut to 50 characters.
StatedQualifies(line) ==
    /\ \A i \in 1..Len(line) : IsPrintable(line[i])
    /\ Len(line) > 10
    /\ ~EndsWith(line, DOT_LBM)
StatedTitle(bytes) ==
    LET lines == SplitNul(DecodeAsciiIgnore(Slice(bytes, 8, Len(bytes))), <<>>)
        q == {i \in 1..Len(lines) : StatedQualifies(lines[i])}
    IN  IF q = {} THEN None
        ELSE LET first == CHOOSE i \in q : \A j \in q : i <= j
             IN  Some(Slice(lines[first], 0, 50))
\* C18: for a file with a valid header the level title is the first
\* NUL-delimited fragment after the 8-byte header that is made of printable
\* characters only, is longer than 10 characters and does not end with the
\* image-asset suffix, cut to 50 characters; a fragment holding a
\* non-printable character is not selected; without such a fragment the
\* title is absent (the report keeps its default title).
C18_TitleIsFirstPrintableFragment ==
    (elv_file # None /\ ~BadHeader) =>
        LET stated == StatedTitle(elv_file[1])
        IN  /\ ParseReturned => file_info.level_title = stated
            /\ ReportReturned =>
                   report.level_title =
                       IF stated = None THEN UNKNOWN_TITLE ELSE stated[1]

\* C19: for a file with a valid header elvd_version is byte 4 plus 256 times
\* byte 5 of the file (offsets from 0), a value in 0..65535 whatever the
\* bytes 6 and 7 are.
C19_VersionIsLittleEndian16 ==
    (ParseReturned /\ elv_file # None /\ ~BadHeader) =>
        /\ file_info.elvd_version = elv_file[1][5] + 256 * elv_file[1][6]
        /\ file_info.elvd_version \in 0..65535
\* A file whose bytes 4..7 are 90 01 FF FF has been parsed: version 400.
C19_Witness ==
    /\ ParseReturned /\ elv_file # None /\ ~BadHeader
    /\ Slice(elv_file[1], 4, 8) = <<144, 1, 255, 255>>
    /\ file_info.parse_success
    /\ file_info.elvd_version = 400

\* The one file of the directory and its samples before the resampling.
SourceFile == CHOOSE f \in rloops_dir : TRUE
SourceSamples ==
    [i \in 1..Len(SourceFile.frames) |-> DecodeFrame(SourceFile, SourceFile.frames[i])]
ClipLoaded == Cardinality(rloops_dir) = 1 /\ Len(audio_clips) = 1
\* C20: a clip of n mono samples at rate r is loaded, for the target rate
\* t, unchanged when r = t; with each sample repeated t div r times in a row
\* when r < t (n * k samples); reduced to the samples at indices 0, k, 2k,
\* ... with k = r div t when r > t (the least m with m * k >= n samples);
\* nothing else is done when neither rate is a multiple of the other.
C20_IntegerRatioResampling ==
    ClipLoaded =>
        LET src == SourceSamples
            out == audio_clips[1].audio_data
            n == Len(src)
            r == SourceFile.framerate
            t == target_sample_rate
        IN  /\ r = t => out = src
            /\ r < t =>
                   LET k == t \div r
                   IN  /\ k >= 1
                       /\ Len(out) = n * k
                       /\ \A i \in 1..n : \A j \in 1..k : out[(i - 1) * k + j] = src[i]
            /\ r > t =>
                   LET k == r \div t
                   IN  /\ k >= 1
                       /\ Len(out) * k >= n
                       /\ (Len(out) - 1) * k < n \/ n = 0
                       /\ n = 0 => out = <<>>
                       /\ \A m \in 1..Len(out) : out[m] = src[(m - 1) * k + 1]
\* Three samples at 100000 Hz have been loaded: k = 2, and the samples at
\* indices 0 and 2 are the clip.
C20_Witness ==
    /\ ClipLoaded
    /\ SourceFile.framerate = 100000
    /\ Len(SourceSamples) = 3
    /\ audio_clips[1].audio_data = <<SourceSamples[1], SourceSamples[3]>>

\* C21: no filename of 4 characters or fewer is in an extracted sequence,
\* whatever the blob: every retained filename is longer than 4.
C21_NoShortFilename ==
    ExtractReturned =>
        \A i \in 1..Len(audio_sequence) : Len(audio_sequence[i].filename) > 4
\* A blob has been scanned and two filenames are retained, one of them of
\* the least length a pattern can match (a digit and "RHYTH.WAV").
C21_Witness ==
    /\ ExtractReturned
    /\ Len(audio_sequence) = 2
    /\ \E i \in 1..2 : Len(audio_sequence[i].filename) = 10

\* The keys of both inventories are upper-case names ending in ".WAV".
InventoryKeys ==
    available_audio_files \cup
    (IF audio_file_info = <<>> THEN {} ELSE DOMAIN audio_file_info)
KeysUpperWav ==
    \A key \in InventoryKeys : key = Upper(key) /\ EndsWith(key, DOT_WAV)
\* Every entry recorded by parse_elv_file or extract_all_files, in a result.
RecordedEntries ==
    {file_info.audio_files[i] : i \in 1..Len(file_info.audio_files)}
    \cup UNION {{extracted_files[k].info.audio_files[i] :
                    i \in 1..Len(extracted_files[k].info.audio_files)} :
                k \in 1..Len(extracted_files)}
\* The answers recorded so far for one filename are the same answer, the
\* one the inventory gives now.
AnswersAgree ==
    /\ \A e \in RecordedEntries :
           e.exists_in_rloops = (ResolvedName(e.filename, available_audio_files) # None)
    /\ CheckReturned =>
           /\ check_result.exists =
                  (ResolvedName(Upper(check_filename), available_audio_files) # None)
           /\ \A e \in RecordedEntries :
                  e.filename = Upper(check_filename) =>
                      e.exists_in_rloops = check_result.exists
\* C22: the inventories are built by the constructors and no later call
\* changes them: their keys are upper-case and end in ".WAV"; no step of
\* parse_elv_file, _check_audio_file_exists, extract_all_files or
\* save_sequence_data (nor of the report generator) adds, removes or alters
\* an entry; the answers given for one filename at different points of a
\* session are the same.
C22_InventoryReadOnly ==
    /\ [](KeysUpperWav /\ AnswersAgree)
    /\ [][/\ available_audio_files' = available_audio_files
          /\ audio_file_info' = audio_file_info]_vars
\* Every operation of the session has returned; the filename asked for was
\* resolved through the fallback and the parsed file and the batch recorded
\* it too, next to a reference that is not resolved.
C22_Witness ==
    /\ {"_check_audio_file_exists", "parse_elv_file", "extract_all_files",
         "save_sequence_data"} \subseteq returned
    /\ available_audio_files # {}
    /\ check_result.exists /\ check_result.alternative # None
    /\ \E e \in {file_info.audio_files[i] : i \in 1..Len(file_info.audio_files)} :
           e.filename = Upper(check_filename) /\ e.exists_in_rloops
    /\ \E e \in RecordedEntries : ~e.exists_in_rloops
    /\ extracted_files # <<>>
    /\ sequence_data # None /\ sequence_data[1].total_files = Len(extracted_files)

\* The name under which the extractor resolved an entry: the alias when the
\* fallback found it, the filename itself otherwise.
ResolvedAs(audio_info) ==
    IF audio_info.alternative_found # None
    THEN audio_info.alternative_found[1]
    ELSE audio_info.filename
\* An entry recorded as resolved whose resolved file decodes.
ResolvedAndDecodable(audio_info) ==
    /\ audio_info.file_type # "silence"
    /\ audio_info.exists_in_rloops
    /\ load_audio_file(ResolvedAs(audio_info), rloops_dir) # None
\* C23: the renderer loads a reference under the name it was resolved to:
\* every entry of the level that is not silence, is recorded as resolved
\* (directly or through the leading-digit fallback) and whose resolved file
\* decodes gives a clip of the composition, with the samples of that file.
C23_ResolvedReferenceGivesClip ==
    (pc # "start" /\ CalledLevel # None /\ CalledLevel[1].audio_count # 0) =>
        \A i \in 1..Len(CalledLevel[1].audio_files) :
            LET audio_info == CalledLevel[1].audio_files[i]
            IN  ResolvedAndDecodable(audio_info) =>
                    \E c \in 1..Len(audio_clips) :
                        /\ audio_clips[c].seq_pos = audio_info.sequence_position
                        /\ audio_clips[c].audio_data =
                               load_audio_file(ResolvedAs(audio_info), rloops_dir)[1]

\* The fields that ELVAudioInfo and AudioSequenceInfo have in common.
ChainFields(a) ==
    [filename |-> a.filename, sequence_position |-> a.sequence_position,
     binary_offset |-> a.binary_offset, file_type |-> a.file_type,
     exists_in_rloops |-> a.exists_in_rloops,
     alternative_found |-> a.alternative_found]
\* C24: on the same file and the same rloops directory, parse_elv_file and
\* generate_elv_report give the same elvd_version and the same list, in the
\* same order, of (filename, sequence_position, binary_offset, file_type,
\* exists_in_rloops, alternative_found).
C24_ExtractorAndReportAgree ==
    (ParseReturned /\ ReportReturned) =>
        /\ report.elvd_version = file_info.elvd_version
        /\ Len(report.audio_sequence) = Len(file_info.audio_files)
        /\ \A i \in 1..Len(file_info.audio_files) :
               ChainFields(report.audio_sequence[i]) = ChainFields(file_info.audio_files[i])
\* Both tools have processed a file of version 400 with two references, one
\* resolved through the fallback and one not resolved.
C24_Witness ==
    /\ ParseReturned /\ ReportReturned
    /\ file_info.parse_success
    /\ file_info.elvd_version = 400
    /\ Len(file_info.audio_files) = 2
    /\ \E i, j \in 1..2 :
           /\ file_info.audio_files[i].alternative_found # None
           /\ ~file_info.audio_files[j].exists_in_rloops

\* The category of the pattern shape a retained (upper-case) filename has.
ShapeCategory(filename) ==
    IF filename = NOSOUND_WAV THEN "silence"
    ELSE IF ReMatch(Digits \o Lit(RHYTH_WAV) \o Dollar, filename)
         THEN "numbered_rhythm"
    ELSE IF ReMatch(ClassUpper \o Lit(RHYTH_WAV) \o Dollar, filename)
         THEN "letter_rhythm"
    ELSE IF ReMatch(Lit(<<33>>) \o Digits \o Lit(RHYT_WAV) \o Dollar, filename)
         THEN "system"
    ELSE IF ReMatch(Lit(<<88>>) \o Digits \o Lit(RHYT_WAV) \o Dollar, filename)
         THEN "special"
    ELSE "unknown"
\* C25: every filename the scan retains has a category other than
\* "unknown", the one of the shape that matched it: digits and RHYTH.WAV
\* numbered_rhythm, one letter (any of A..Z, X too) and RHYTH.WAV
\* letter_rhythm, "!" digits RHYT.WAV system, "X" digits RHYT.WAV special,
\* NOSOUND.WAV silence.
C25_CategoryOfShape ==
    ParseReturned =>
        \A i \in 1..Len(file_info.audio_files) :
            /\ file_info.audio_files[i].file_type # "unknown"
            /\ file_info.audio_files[i].file_type =
                   ShapeCategory(file_info.audio_files[i].filename)

\* C26: every sample load_audio_file decodes is between -1 and 1, so the
\* peak of a buffer made of decoded clips is at most 1.0 and the buffer is
\* returned without the division of the normalization; the 16-bit values
\* save_music writes are sample * 32767 cut to an integer, between -32767
\* and 32767, none of them wrapped around.
C26_DecodedSamplesInRange ==
    /\ \A c \in 1..Len(audio_clips) :
           \A i \in 1..Len(audio_clips[c].audio_data) :
               ~MagnitudeLess(One, audio_clips[c].audio_data[i])
    /\ music_buffer # <<>> => ~MagnitudeLess(One, MaxAmplitude(music_buffer))
    /\ (pc = "done" /\ music_result # None) => music_result[1] = music_buffer
    /\ audio_16bit # None =>
           \A i \in 1..Len(audio_16bit[1]) :
               /\ audio_16bit[1][i] >= -32767 /\ audio_16bit[1][i] <= 32767
               /\ audio_16bit[1][i] = Scale32767(music_result[1][i])
\* A 16-bit clip with the samples -32768 and 32767 has been composed and
\* saved: the buffer holds the sample -1.0 and the file the values -32767
\* and 32766.
C26_Witness ==
    /\ audio_16bit # None
    /\ \E i \in 1..Len(music_result[1]) : music_result[1][i] = Dyadic(-1, 0)
    /\ \E i, j \in 1..Len(audio_16bit[1]) :
           audio_16bit[1][i] = -32767 /\ audio_16bit[1][j] = 32766

====
